---- MODULE Spec2Model ----
(***************************************************************************)
(* Model of the list service (services/listService.ts), the storage        *)
(* adapter (utils/storage.ts), the validation helpers (utils/validation.ts *)
(* and utils/constants.ts) and the ListContext reducer                     *)
(* (context/listReducer.ts, context/ListContext.tsx) of the list-sharing   *)
(* application.                                                            *)
(*                                                                         *)
(* Strings that the code trims, measures, matches or compares are          *)
(* sequences of one-character strings; messages are TLA+ strings.          *)
(* Identifiers are naturals: the mock users '1','2','3' are 1, 2, 3 and    *)
(* generateId() hands out nextId, nextId+1, ... starting at FirstId.       *)
(* Timestamps are readings of the logical clock `now`; 0 is `undefined`.   *)
(***************************************************************************)
EXTENDS Integers, Sequences, FiniteSets, TLC

(***************************************************************************)
(* Bounds of the model.                                                    *)
(***************************************************************************)
\* number of calls that write (to storage, or that clear cache entries)
MaxOps == 1
\* number of entries the cache of the list service holds
MaxCached == 1
\* the users 1..MaxCaller call the service
MaxCaller == 2
\* calls on tasks address the first TaskPick tasks of a list (or a missing id)
TaskPick == 1
\* number of handler calls of the ListProvider that change something besides
\* the error shown
MaxCtxOps == 2

(***************************************************************************)
(* Program constants (utils/constants.ts; services/listService.ts).        *)
(***************************************************************************)
MAX_LIST_TITLE_LENGTH == 100
MAX_TASK_TEXT_LENGTH == 200
MAX_TASKS_PER_LIST == 100
MAX_SHARED_USERS == 10
MAX_EMAIL_LENGTH == 100
MAX_LISTS_PER_USER == 50

\* ids of the three mock users, '1', '2', '3'
UserIds == {1, 2, 3}
\* first value of generateId(); a list or task id never equals a user id
FirstId == 10
\* an id no list and no task ever has
MissingId == 0

VARIABLES
  mockUsers,   \* the in-memory user directory MOCK_USERS
  storage,     \* AsyncStorage, key lists_<userId>: [stored, lists]
  cache,       \* ListService.cache: cacheKey -> [hit, data]
  nextId,      \* next value of generateId()
  now,         \* logical clock read by getCurrentTimestamp()
  last,        \* the call that returned last and its ApiResponse
  user,        \* AuthContext user seen by the ListProvider (0: none)
  state,       \* ListProvider reducer state
  deleted,     \* history: lists deleted by deleteList, with their sharedWith
  ioFailed,    \* history: some storage read or write has failed
  pending,     \* overlapping calls: those that have read storage and await
               \* their continuation and, as history, those that returned
  loginAttempts, \* AuthService.loginAttempts: email -> LoginAttempt[]
  session,     \* AsyncStorage, keys userToken and userData
  minute,      \* Date.now() in minutes, read by the lockout and expiry checks
  attempted,   \* history: every signIn that reached the credential check
  cachedAt,    \* history: the minute at which each cache entry was stored
  authState,   \* AuthProvider reducer state
  authPending  \* calls of the AuthProvider that await the authentication service

vars ==
  << mockUsers, storage, cache, nextId, now, last, user, state, deleted, ioFailed, pending,
     loginAttempts, session, minute, attempted, cachedAt, authState, authPending >>

\* the state of the authentication service
authVars == << loginAttempts, session, minute, attempted, authState, authPending >>

(***************************************************************************)
(* Strings.                                                                *)
(***************************************************************************)
\* the characters of the model's strings in code-unit order
Chars == << " ", ".", "@", "A", "B", "C", "D", "E", "F", "G", "H", "I", "J", "K", "L", "M",
            "N", "O", "P", "Q", "R", "S", "T", "U", "V", "W", "X", "Y", "Z",
            "a", "b", "c", "d", "e", "f", "g", "h", "i", "j", "k", "l", "m",
            "n", "o", "p", "q", "r", "s", "t", "u", "v", "w", "x", "y", "z" >>

CharCode(c) == CHOOSE i \in 1..Len(Chars) : Chars[i] = c

\* String.prototype.toLowerCase, per character
LowerChar(c) == IF CharCode(c) \in 4..29 THEN Chars[CharCode(c) + 26] ELSE c

ToLowerCase(s) == [i \in 1..Len(s) |-> LowerChar(s[i])]

RECURSIVE TrimStart(_)
TrimStart(s) == IF s # <<>> /\ Head(s) = " " THEN TrimStart(Tail(s)) ELSE s

RECURSIVE TrimEnd(_)
TrimEnd(s) ==
  IF s # <<>> /\ s[Len(s)] = " " THEN TrimEnd(SubSeq(s, 1, Len(s) - 1)) ELSE s

\* String.prototype.trim
Trim(s) == TrimEnd(TrimStart(s))

\* String.prototype.includes
Includes(s, t) ==
  \E i \in 1..(Len(s) - Len(t) + 1) : SubSeq(s, i, i + Len(t) - 1) = t

\* s < t on strings: lexicographic by code unit
RECURSIVE StrLess(_, _)
StrLess(s, t) ==
  IF t = <<>> THEN FALSE
  ELSE IF s = <<>> THEN TRUE
  ELSE IF CharCode(Head(s)) < CharCode(Head(t)) THEN TRUE
  ELSE IF CharCode(Head(s)) > CharCode(Head(t)) THEN FALSE
  ELSE StrLess(Tail(s), Tail(t))

\* a string of n characters 'x'
Repeat(n) == [i \in 1..n |-> "x"]

(***************************************************************************)
(* Sequences.                                                              *)
(***************************************************************************)
\* Array.prototype.findIndex, 1-based; 0 stands for -1
FindIndex(seq, P(_)) ==
  IF \E i \in 1..Len(seq) : P(seq[i])
  THEN CHOOSE i \in 1..Len(seq) : P(seq[i]) /\ \A j \in 1..(i - 1) : ~P(seq[j])
  ELSE 0

\* Array.prototype.filter
Filter(seq, P(_)) == SelectSeq(seq, P)

\* an includes that also holds of the empty array
ContainsOrEmpty(seq, x) == seq = <<>> \/ \E i \in 1..Len(seq) : seq[i] = x

\* Array.prototype.includes
Contains(seq, x) == \E i \in 1..Len(seq) : seq[i] = x

Range(seq) == {seq[i] : i \in 1..Len(seq)}

\* Array.prototype.sort with a comparator that orders by Less (stable):
\* element i goes to the place after all elements that sort before it
StableSort(seq, Less(_, _)) ==
  LET n == Len(seq)
      rank(i) == 1 + Cardinality({j \in 1..n :
                        \/ Less(seq[j], seq[i])
                        \/ (~Less(seq[i], seq[j]) /\ j < i)})
  IN [k \in 1..n |-> seq[CHOOSE i \in 1..n : rank(i) = k]]

RECURSIVE Gcd(_, _)
Gcd(a, b) == IF b = 0 THEN a ELSE Gcd(b, a % b)

(***************************************************************************)
(* E-mail addresses and the strings of the sample data.                    *)
(***************************************************************************)
ExampleCom == << "@", "e", "x", "a", "m", "p", "l", "e", ".", "c", "o", "m" >>
UserEmail == << "u", "s", "e", "r" >> \o ExampleCom
AnnaEmail == << "a", "n", "n", "a" >> \o ExampleCom
TestEmail == << "t", "e", "s", "t" >> \o ExampleCom
\* well-formed, but no user has it
GhostEmail == << "g", "h", "o", "s", "t" >> \o ExampleCom
\* not an e-mail address
BadEmail == << "a", "n", "n", "a" >>

\* the empty string
Empty == << >>

\* 'password123', the password of every mock user
Password123 == << "p", "a", "s", "s", "w", "o", "r", "d", "1", "2", "3" >>
NameJan == << "J", "a", "n", " ", "K", "o", "w", "a", "l", "s", "k", "i" >>
NameAnna == << "A", "n", "n", "a", " ", "N", "o", "w", "a", "k" >>
NameTest == << "T", "e", "s", "t", " ", "U", "s", "e", "r" >>

\* the directory at process start (utils/constants.ts MOCK_USERS); createdAt 0
\* is before the process started
MOCK_USERS ==
  << [id |-> 1, email |-> UserEmail, password |-> Password123, name |-> NameJan, createdAt |-> 0],
     [id |-> 2, email |-> AnnaEmail, password |-> Password123, name |-> NameAnna, createdAt |-> 0],
     [id |-> 3, email |-> TestEmail, password |-> Password123, name |-> NameTest, createdAt |-> 0] >>

\* titles and task texts of the sample lists (Polish letters written in ASCII)
TitleZakupy == << "Z", "a", "k", "u", "p", "y", " ", "s", "p", "o", "z", "y", "w", "c", "z", "e" >>
TitleZadania == << "Z", "a", "d", "a", "n", "i", "a", " ", "d", "o", " ", "w", "y", "k", "o", "n", "a", "n", "i", "a" >>
TextMleko == << "M", "l", "e", "k", "o" >>
TextChleb == << "C", "h", "l", "e", "b" >>
TextJajka == << "J", "a", "j", "k", "a" >>
TextMaslo == << "M", "a", "s", "l", "o" >>
TextPrezentacja == << "P", "r", "z", "y", "g", "o", "t", "o", "w", "a", "c", " ", "p", "r", "e", "z", "e", "n", "t", "a", "c", "j", "e" >>
TextKlient == << "Z", "a", "d", "z", "w", "o", "n", "i", "c", " ", "d", "o", " ", "k", "l", "i", "e", "n", "t", "a" >>
TextRaport == << "W", "y", "s", "l", "a", "c", " ", "r", "a", "p", "o", "r", "t" >>

(***************************************************************************)
(* utils/constants.ts: type guards.                                        *)
(***************************************************************************)
\* /^[^\s@]+@[^\s@]+\.[^\s@]+$/ : no white space, exactly one '@' that is not
\* the first character, and after it a '.' with at least one character on
\* each side
EmailRegexTest(e) ==
  /\ \A i \in 1..Len(e) : e[i] # " "
  /\ Cardinality({i \in 1..Len(e) : e[i] = "@"}) = 1
  /\ \E p \in 2..Len(e) :
       /\ e[p] = "@"
       /\ \E q \in (p + 2)..(Len(e) - 1) : e[q] = "."

isValidEmail(e) == EmailRegexTest(e) /\ Len(e) <= MAX_EMAIL_LENGTH

isValidListTitle(title) ==
  Len(Trim(title)) >= 1 /\ Len(Trim(title)) <= MAX_LIST_TITLE_LENGTH

isValidTaskText(text) ==
  Len(Trim(text)) >= 1 /\ Len(Trim(text)) <= MAX_TASK_TEXT_LENGTH

(***************************************************************************)
(* Error messages (utils/constants.ts ERROR_MESSAGES and the literals of   *)
(* services/listService.ts).                                               *)
(***************************************************************************)
NoError == "none"
REQUIRED_FIELD == "To pole jest wymagane"
INVALID_EMAIL == "Wprowadz prawidlowy adres email"
USER_NOT_FOUND == "Uzytkownik nie zostal znaleziony"
LIST_TITLE_REQUIRED == "Tytul listy jest wymagany"
LIST_TITLE_TOO_LONG == "Tytul listy moze miec maksymalnie 100 znakow"
TASK_TEXT_REQUIRED == "Tekst zadania jest wymagany"
TASK_TEXT_TOO_LONG == "Tekst zadania moze miec maksymalnie 200 znakow"
MAX_TASKS_EXCEEDED == "Lista moze zawierac maksymalnie 100 zadan"
MAX_SHARED_USERS_EXCEEDED == "Lista moze byc udostepniona maksymalnie 10 uzytkownikom"
UNKNOWN_ERROR == "Wystapil nieoczekiwany blad"
STORAGE_ERROR == "Blad zapisu danych"
LIST_NOT_FOUND == "Lista nie zostala znaleziona"
TASK_NOT_FOUND == "Zadanie nie zostalo znalezione"
NO_EDIT_PERMISSION == "Brak uprawnien do edycji tej listy"
NO_VIEW_PERMISSION == "Brak uprawnien do przegladania tej listy"
ONLY_OWNER_DELETES == "Tylko wlasciciel moze usunac liste"
ONLY_OWNER_SHARES == "Tylko wlasciciel moze udostepnic liste"
ALREADY_SHARED == "Lista jest juz udostepniona temu uzytkownikowi"
SELF_SHARE == "Nie mozesz udostepnic listy samemu sobie"
MAX_LISTS_REACHED == "Osiagnieto maksymalna liczbe list (50)"

PermissionErrors == {NO_EDIT_PERMISSION, NO_VIEW_PERMISSION, ONLY_OWNER_DELETES, ONLY_OWNER_SHARES}

(***************************************************************************)
(* utils/validation.ts.  A validator returns NoError for `undefined`; a    *)
(* schema returns its errorList (the messages, in order).                  *)
(***************************************************************************)
ValidateEmail(email) ==
  IF Trim(email) = Empty THEN REQUIRED_FIELD
  ELSE IF ~isValidEmail(email) THEN INVALID_EMAIL
  ELSE NoError

ValidateListTitle(title) ==
  IF Trim(title) = Empty THEN LIST_TITLE_REQUIRED
  ELSE IF ~isValidListTitle(title) THEN LIST_TITLE_TOO_LONG
  ELSE NoError

ValidateTaskText(text) ==
  IF Trim(text) = Empty THEN TASK_TEXT_REQUIRED
  ELSE IF ~isValidTaskText(text) THEN TASK_TEXT_TOO_LONG
  ELSE NoError

\* the errors of the tasks from index i on: a task whose trimmed text is
\* empty is skipped, not reported
RECURSIVE TaskErrors(_, _)
TaskErrors(tasks, i) ==
  IF i > Len(tasks) THEN <<>>
  ELSE (IF Trim(tasks[i]) # Empty /\ ValidateTaskText(tasks[i]) # NoError
        THEN << ValidateTaskText(tasks[i]) >> ELSE <<>>) \o TaskErrors(tasks, i + 1)

SchemaCreateList(title, tasks) ==
  (IF ValidateListTitle(title) # NoError THEN << ValidateListTitle(title) >> ELSE <<>>)
  \o (IF Len(tasks) > MAX_TASKS_PER_LIST THEN << MAX_TASKS_EXCEEDED >> ELSE <<>>)
  \o TaskErrors(tasks, 1)

SchemaAddTask(taskText) ==
  IF ValidateTaskText(taskText) # NoError THEN << ValidateTaskText(taskText) >> ELSE <<>>

SchemaShareList(email) ==
  IF ValidateEmail(email) # NoError THEN << ValidateEmail(email) >> ELSE <<>>

(***************************************************************************)
(* Lists, tasks and their statistics (types/index.ts, types/lists.ts).     *)
(***************************************************************************)
\* completed / total * 100 as a fraction in lowest terms
Percentage(completed, total) ==
  LET g == Gcd(completed * 100, total)
  IN [n |-> (completed * 100) \div g, d |-> total \div g]

ZeroPercent == [n |-> 0, d |-> 1]

\* p < 100
BelowHundred(p) == p.n < 100 * p.d

\* p < q
PercentLess(p, q) == p.n * q.d < q.n * p.d

\* the timestamp `a || b`
OrElse(a, b) == IF a # 0 THEN a ELSE b

IsCompleted(task) == task.completed

calculateStatistics(list) ==
  LET totalTasks == Len(list.tasks)
      completedTasks == Len(Filter(list.tasks, IsCompleted))
      pendingTasks == totalTasks - completedTasks
      completionPercentage ==
        IF totalTasks > 0 THEN Percentage(completedTasks, totalTasks) ELSE ZeroPercent
  IN [totalTasks |-> totalTasks,
      completedTasks |-> completedTasks,
      pendingTasks |-> pendingTasks,
      completionPercentage |-> completionPercentage,
      lastActivity |-> OrElse(list.updatedAt, list.createdAt)]

\* MOCK_USERS.find((u) => u.id === userId)?.email || null ; Empty is null
getCurrentUserEmail(userId) ==
  LET i == CHOOSE i \in 0..Len(mockUsers) :
             IF \E j \in 1..Len(mockUsers) : mockUsers[j].id = userId
             THEN i > 0 /\ mockUsers[i].id = userId
                  /\ \A j \in 1..(i - 1) : mockUsers[j].id # userId
             ELSE i = 0
  IN IF i = 0 THEN Empty ELSE mockUsers[i].email

canUserEditList(list, userId) ==
  IF list.ownerId = userId THEN TRUE
  ELSE LET userEmail == getCurrentUserEmail(userId)
       IN IF userEmail # Empty THEN Contains(list.sharedWith, userEmail) ELSE FALSE

enrichList(list, currentUserId) ==
  LET isOwner == list.ownerId = currentUserId
      currentUserEmail == getCurrentUserEmail(currentUserId)
      isSharedWithCurrentUser ==
        IF currentUserEmail # Empty THEN Contains(list.sharedWith, currentUserEmail) ELSE FALSE
  IN [id |-> list.id, title |-> list.title, ownerId |-> list.ownerId,
      sharedWith |-> list.sharedWith, tasks |-> list.tasks,
      createdAt |-> list.createdAt, updatedAt |-> list.updatedAt,
      statistics |-> calculateStatistics(list),
      isOwner |-> isOwner,
      isShared |-> Len(list.sharedWith) > 0,
      canEdit |-> isOwner \/ isSharedWithCurrentUser,
      canDelete |-> isOwner,
      canShare |-> isOwner]

\* the List inside a ListWithStats
PlainList(l) ==
  [id |-> l.id, title |-> l.title, ownerId |-> l.ownerId, sharedWith |-> l.sharedWith,
   tasks |-> l.tasks, createdAt |-> l.createdAt, updatedAt |-> l.updatedAt]

(***************************************************************************)
(* Filters.  A flag is "true", "false" or "undefined"; sortBy and          *)
(* sortOrder are the source's strings or "undefined"; an undefined         *)
(* searchTerm is Empty.                                                    *)
(***************************************************************************)
EmptyFilter ==
  [searchTerm |-> Empty, showCompleted |-> "undefined", showShared |-> "undefined",
   showOwned |-> "undefined", sortBy |-> "undefined", sortOrder |-> "undefined"]

\* initialListState.filter
InitialFilter ==
  [searchTerm |-> Empty, showCompleted |-> "true", showShared |-> "true",
   showOwned |-> "true", sortBy |-> "createdAt", sortOrder |-> "desc"]

SortKeyLess(a, b, sortBy) ==
  CASE sortBy = "title" -> StrLess(ToLowerCase(a.title), ToLowerCase(b.title))
    [] sortBy = "createdAt" -> a.createdAt < b.createdAt
    [] sortBy = "updatedAt" ->
         OrElse(a.updatedAt, a.createdAt) < OrElse(b.updatedAt, b.createdAt)
    [] sortBy = "completionPercentage" ->
         PercentLess(a.statistics.completionPercentage, b.statistics.completionPercentage)
    [] OTHER -> FALSE

filterLists(lists, filter) ==
  LET searchTerm == Trim(ToLowerCase(filter.searchTerm))
      MatchesSearch(list) ==
        \/ Includes(ToLowerCase(list.title), searchTerm)
        \/ \E i \in 1..Len(list.tasks) : Includes(ToLowerCase(list.tasks[i].text), searchTerm)
      bySearch == IF Trim(filter.searchTerm) # Empty THEN Filter(lists, MatchesSearch) ELSE lists
      MatchesOwnership(list) ==
        IF filter.showOwned = "true" /\ filter.showShared = "true" THEN TRUE
        ELSE IF filter.showOwned = "true" /\ filter.showShared # "true" THEN list.isOwner
        ELSE IF filter.showOwned # "true" /\ filter.showShared = "true" THEN list.isShared
        ELSE FALSE
      byOwnership ==
        IF filter.showOwned # "undefined" \/ filter.showShared # "undefined"
        THEN Filter(bySearch, MatchesOwnership) ELSE bySearch
      NotComplete(list) == BelowHundred(list.statistics.completionPercentage)
      byCompletion ==
        IF filter.showCompleted = "false" THEN Filter(byOwnership, NotComplete) ELSE byOwnership
      Before(a, b) ==
        IF filter.sortOrder = "desc" THEN SortKeyLess(b, a, filter.sortBy)
        ELSE SortKeyLess(a, b, filter.sortBy)
  IN IF filter.sortBy # "undefined" THEN StableSort(byCompletion, Before) ELSE byCompletion

(***************************************************************************)
(* Storage (utils/storage.ts) and the lookup of a list.                    *)
(***************************************************************************)
NothingStored == [stored |-> FALSE, lists |-> <<>>]

Stored(lists) == [stored |-> TRUE, lists |-> lists]

\* (await storage.getItem<List[]>(this.getUserListsKey(userId))) || []
getItemOrEmpty(st, userId) == IF st[userId].stored THEN st[userId].lists ELSE <<>>

\* AsyncStorageService.setItem: a failed write leaves the key as it was
setItem(st, userId, lists, ok) ==
  IF ok THEN [st EXCEPT ![userId] = Stored(lists)] ELSE st

NotFound == [found |-> FALSE, list |-> <<>>, ownerId |-> 0, listIndex |-> 0, ownerLists |-> <<>>]

\* the first other user, in directory order from position i, who stores a
\* list with this id that is shared with the e-mail
RECURSIVE FindShared(_, _, _, _, _)
FindShared(st, userId, listId, email, i) ==
  IF i > Len(mockUsers) THEN NotFound
  ELSE LET u == mockUsers[i]
           userLists == getItemOrEmpty(st, u.id)
           Shared(list) == list.id = listId /\ Contains(list.sharedWith, email)
           sharedListIndex == FindIndex(userLists, Shared)
       IN IF u.id # userId /\ sharedListIndex # 0
          THEN [found |-> TRUE, list |-> userLists[sharedListIndex], ownerId |-> u.id,
                listIndex |-> sharedListIndex, ownerLists |-> userLists]
          ELSE FindShared(st, userId, listId, email, i + 1)

findListById(st, userId, listId) ==
  LET currentUserLists == getItemOrEmpty(st, userId)
      HasId(list) == list.id = listId
      ownedListIndex == FindIndex(currentUserLists, HasId)
      currentUserEmail == getCurrentUserEmail(userId)
  IN IF ownedListIndex # 0
     THEN [found |-> TRUE, list |-> currentUserLists[ownedListIndex], ownerId |-> userId,
           listIndex |-> ownedListIndex, ownerLists |-> currentUserLists]
     ELSE IF currentUserEmail = Empty THEN NotFound
     ELSE FindShared(st, userId, listId, currentUserEmail, 1)

(***************************************************************************)
(* The cache of ListService and saveUserLists.                             *)
(***************************************************************************)
\* the filters that direct callers of the service pass in this model
LoadFilters == { EmptyFilter, InitialFilter }

\* initialListState.filter after setFilter({ showCompleted: false })
PendingFilter == [InitialFilter EXCEPT !.showCompleted = "false"]

\* every filter that reaches the service in this model
Filters == LoadFilters \cup { PendingFilter }

\* the cache keys `${userId}_${JSON.stringify(filter)}`
CacheKeys == UserIds \X Filters

NoEntry == [hit |-> FALSE, data |-> <<>>]

\* key.startsWith(userId): the ids '1', '2', '3' are no prefixes of each other
KeyStartsWith(key, userId) == key[1] = userId

clearCache(ca, userId) ==
  [key \in CacheKeys |-> IF KeyStartsWith(key, userId) THEN NoEntry ELSE ca[key]]

\* the users found for the e-mails in the sharedWith of these lists:
\* MOCK_USERS.find((u) => u.email === email) is the first with the e-mail
SharedListUsers(lists) ==
  LET sharedEmails == UNION {Range(lists[i].sharedWith) : i \in 1..Len(lists)}
      HasUser(email) == \E j \in 1..Len(mockUsers) : mockUsers[j].email = email
      FirstUser(email) ==
        mockUsers[CHOOSE j \in 1..Len(mockUsers) :
                    /\ mockUsers[j].email = email
                    /\ \A k \in 1..(j - 1) : mockUsers[k].email # email].id
  IN {FirstUser(email) : email \in {e \in sharedEmails : HasUser(e)}}

clearCacheForSharedListUsers(ca, lists) ==
  [key \in CacheKeys |->
     IF \E uid \in SharedListUsers(lists) : KeyStartsWith(key, uid) THEN NoEntry ELSE ca[key]]

\* saveUserLists: storage.setItem reports a failed write by returning false
\* and never throws; the result is not looked at, so the caches are cleared
\* and true is returned whether or not the write happened
saveUserLists(st, ca, userId, lists, ok) ==
  [storage |-> setItem(st, userId, lists, ok),
   cache |-> clearCacheForSharedListUsers(clearCache(ca, userId), lists),
   saved |-> TRUE,
   key |-> userId,
   written |-> ok]

(***************************************************************************)
(* ApiResponse and the outcome of a service call: the storage and cache    *)
(* it leaves, the number of ids it generated and the response; `write`     *)
(* says what became of the call's storage.setItem ("none": it made none),  *)
(* `key` is the user whose collection it wrote (NoKey: none) and           *)
(* `readFailed` says that its storage.getItem failed.                      *)
(***************************************************************************)
NoKey == 0

Response(success, error, data, task, message) ==
  [success |-> success, error |-> error, data |-> data, task |-> task, message |-> message]

Failure(error) == Response(FALSE, error, <<>>, <<>>, "")

Outcome(st, ca, used, res) ==
  [storage |-> st, cache |-> ca, used |-> used, res |-> res,
   write |-> "none", key |-> NoKey, readFailed |-> FALSE]

\* the outcome of a call that called storage.setItem for the key
Wrote(o, key, ok) == [o EXCEPT !.write = IF ok THEN "done" ELSE "failed", !.key = key]

\* errorList[0]?.message || fallback
FirstError(errorList, fallback) == IF errorList # <<>> THEN errorList[1] ELSE fallback

(***************************************************************************)
(* loadUserLists.                                                          *)
(***************************************************************************)
SampleTask(id, text, completed) ==
  [id |-> id, text |-> text, completed |-> completed, createdAt |-> 0, completedAt |-> 0]

\* the two sample lists; generateId() is called for a list, then for its tasks
SampleLists(userId, id, t) ==
  << [id |-> id, title |-> TitleZakupy, ownerId |-> userId, sharedWith |-> <<>>,
      tasks |-> << SampleTask(id + 1, TextMleko, FALSE), SampleTask(id + 2, TextChleb, TRUE),
                   SampleTask(id + 3, TextJajka, FALSE), SampleTask(id + 4, TextMaslo, FALSE) >>,
      createdAt |-> t, updatedAt |-> 0],
     [id |-> id + 5, title |-> TitleZadania, ownerId |-> userId,
      sharedWith |-> << AnnaEmail >>,
      tasks |-> << SampleTask(id + 6, TextPrezentacja, FALSE),
                   SampleTask(id + 7, TextKlient, TRUE),
                   SampleTask(id + 8, TextRaport, FALSE) >>,
      createdAt |-> t, updatedAt |-> 0] >>

SampleIds == 9

\* the lists other users store that are shared with the e-mail, users in
\* directory order from position i
RECURSIVE SharedWithMe(_, _, _, _)
SharedWithMe(st, userId, email, i) ==
  IF i > Len(mockUsers) THEN <<>>
  ELSE LET u == mockUsers[i]
           Mine(list) == Contains(list.sharedWith, email)
       IN (IF u.id # userId /\ st[u.id].stored THEN Filter(st[u.id].lists, Mine) ELSE <<>>)
          \o SharedWithMe(st, userId, email, i + 1)

\* the part of loadUserLists after the cache lookup; readOk: the read of the
\* user's own key succeeds; writeOk: the write of the sample lists succeeds
LoadFromStorage(st, ca, id, t, userId, filter, readOk, writeOk) ==
  LET storedLists == IF readOk THEN st[userId] ELSE NothingStored
      seeds == ~storedLists.stored
      allLists == IF seeds THEN SampleLists(userId, id, t) ELSE storedLists.lists
      st2 == IF seeds THEN setItem(st, userId, allLists, writeOk) ELSE st
      currentUserEmail == getCurrentUserEmail(userId)
      sharedLists ==
        IF currentUserEmail # Empty THEN SharedWithMe(st2, userId, currentUserEmail, 1) ELSE <<>>
      combinedLists == allLists \o sharedLists
      enrichedLists == [i \in 1..Len(combinedLists) |-> enrichList(combinedLists[i], userId)]
      filteredLists == filterLists(enrichedLists, filter)
      o == Outcome(st2,
                   [ca EXCEPT ![<<userId, filter>>] = [hit |-> TRUE, data |-> filteredLists]],
                   IF seeds THEN SampleIds ELSE 0,
                   Response(TRUE, NoError, filteredLists, <<>>,
                            IF storedLists.stored THEN "Lists loaded successfully"
                            ELSE "Sample lists initialized"))
  IN [(IF seeds THEN Wrote(o, userId, writeOk) ELSE o) EXCEPT !.readFailed = ~readOk]

loadUserLists(st, ca, id, t, userId, filter, readOk, writeOk) ==
  IF ca[<<userId, filter>>].hit
  THEN Outcome(st, ca, 0,
               Response(TRUE, NoError, ca[<<userId, filter>>].data, <<>>, "Lists loaded from cache"))
  ELSE LoadFromStorage(st, ca, id, t, userId, filter, readOk, writeOk)

\* ReplaceAt that moves the replaced element to the front
ReplaceAtFront(lists, listIndex, updatedList) ==
  << updatedList >> \o SubSeq(lists, 1, listIndex - 1) \o SubSeq(lists, listIndex + 1, Len(lists))

(***************************************************************************)
(* The mutating operations of ListService.  `ok` says whether the write    *)
(* of storage.setItem succeeds; `t` is the reading of the clock.           *)
(***************************************************************************)
\* ownerLists[listIndex] = updatedList
ReplaceAt(lists, listIndex, updatedList) == [lists EXCEPT ![listIndex] = updatedList]

\* the check of `saved` inverted: a write that happened is reported as failed
AfterSaveInverted(sv, used, res) ==
  IF sv.saved
  THEN Wrote(Outcome(sv.storage, sv.cache, used, Failure(STORAGE_ERROR)), sv.key, sv.written)
  ELSE Wrote(Outcome(sv.storage, sv.cache, used, res), sv.key, sv.written)

\* the response after `saved = await this.saveUserLists(...)`
AfterSave(sv, used, res) ==
  IF ~sv.saved
  THEN Wrote(Outcome(sv.storage, sv.cache, used, Failure(STORAGE_ERROR)), sv.key, sv.written)
  ELSE Wrote(Outcome(sv.storage, sv.cache, used, res), sv.key, sv.written)

\* a createList whose limit check lets the collection reach the limit plus one
createListLimitAbove(st, ca, id, t, userId, title, initialTasks, ok) ==
  LET errorList == SchemaCreateList(title, initialTasks)
      currentLists == getItemOrEmpty(st, userId)
      newList ==
        [id |-> id, title |-> Trim(title), ownerId |-> userId, sharedWith |-> <<>>,
         tasks |-> [i \in 1..Len(initialTasks) |->
                      [id |-> id + i, text |-> Trim(initialTasks[i]), completed |-> FALSE,
                       createdAt |-> t, completedAt |-> 0]],
         createdAt |-> t, updatedAt |-> 0]
      sv == saveUserLists(st, ca, userId, <<newList>> \o currentLists, ok)
  IN IF errorList # <<>> THEN Outcome(st, ca, 0, Failure(FirstError(errorList, UNKNOWN_ERROR)))
     ELSE IF Len(currentLists) > MAX_LISTS_PER_USER THEN Outcome(st, ca, 0, Failure(MAX_LISTS_REACHED))
     ELSE AfterSave(sv, 1 + Len(initialTasks),
                    Response(TRUE, NoError, << enrichList(newList, userId) >>, <<>>,
                             "Lista zostala utworzona"))

createList(st, ca, id, t, userId, title, initialTasks, ok) ==
  LET errorList == SchemaCreateList(title, initialTasks)
      currentLists == getItemOrEmpty(st, userId)
      newList ==
        [id |-> id, title |-> Trim(title), ownerId |-> userId, sharedWith |-> <<>>,
         tasks |-> [i \in 1..Len(initialTasks) |->
                      [id |-> id + i, text |-> Trim(initialTasks[i]), completed |-> FALSE,
                       createdAt |-> t, completedAt |-> 0]],
         createdAt |-> t, updatedAt |-> 0]
      sv == saveUserLists(st, ca, userId, <<newList>> \o currentLists, ok)
  IN IF errorList # <<>> THEN Outcome(st, ca, 0, Failure(FirstError(errorList, UNKNOWN_ERROR)))
     ELSE IF Len(currentLists) >= MAX_LISTS_PER_USER THEN Outcome(st, ca, 0, Failure(MAX_LISTS_REACHED))
     ELSE AfterSave(sv, 1 + Len(initialTasks),
                    Response(TRUE, NoError, << enrichList(newList, userId) >>, <<>>,
                             "Lista zostala utworzona"))

\* updates: [hasTitle, title, hasSharedWith, sharedWith]
updateList(st, ca, t, userId, listId, updates, ok) ==
  LET listData == findListById(st, userId, listId)
      list == listData.list
      titleError == ValidateListTitle(updates.title)
      updatedList ==
        [list EXCEPT
           !.title = IF updates.hasTitle /\ Trim(updates.title) # Empty
                     THEN Trim(updates.title) ELSE list.title,
           !.sharedWith = IF updates.hasSharedWith THEN updates.sharedWith ELSE list.sharedWith,
           !.updatedAt = t]
      sv == saveUserLists(st, ca, listData.ownerId,
                          ReplaceAt(listData.ownerLists, listData.listIndex, updatedList), ok)
  IN IF ~listData.found THEN Outcome(st, ca, 0, Failure(LIST_NOT_FOUND))
     ELSE IF ~canUserEditList(list, userId) THEN Outcome(st, ca, 0, Failure(NO_EDIT_PERMISSION))
     ELSE IF updates.hasTitle /\ titleError # NoError THEN Outcome(st, ca, 0, Failure(titleError))
     ELSE AfterSave(sv, 0,
                    Response(TRUE, NoError, << enrichList(updatedList, userId) >>, <<>>,
                             "Lista zostala zaktualizowana"))

deleteList(st, ca, userId, listId, ok) ==
  LET currentLists == getItemOrEmpty(st, userId)
      HasId(l) == l.id = listId
      OtherId(l) == l.id # listId
      index == FindIndex(currentLists, HasId)
      sv == saveUserLists(st, ca, userId, Filter(currentLists, OtherId), ok)
  IN IF index = 0 THEN Outcome(st, ca, 0, Failure(LIST_NOT_FOUND))
     ELSE IF currentLists[index].ownerId # userId
       THEN Outcome(st, ca, 0, Failure(ONLY_OWNER_DELETES))
     ELSE AfterSave(sv, 0, Response(TRUE, NoError, <<>>, <<>>, "Lista zostala usunieta"))

shareList(st, ca, t, userId, listId, userEmail, ok) ==
  LET errorList == SchemaShareList(userEmail)
      HasEmail(u) == u.email = userEmail
      targetIndex == FindIndex(mockUsers, HasEmail)
      targetUser == mockUsers[targetIndex]
      currentLists == getItemOrEmpty(st, userId)
      HasId(l) == l.id = listId
      listIndex == FindIndex(currentLists, HasId)
      list == currentLists[listIndex]
      updatedList ==
        [list EXCEPT !.sharedWith = Append(list.sharedWith, userEmail), !.updatedAt = t]
      sv == saveUserLists(st, ca, userId, ReplaceAt(currentLists, listIndex, updatedList), ok)
  IN IF errorList # <<>> THEN Outcome(st, ca, 0, Failure(FirstError(errorList, INVALID_EMAIL)))
     ELSE IF targetIndex = 0 THEN Outcome(st, ca, 0, Failure(USER_NOT_FOUND))
     ELSE IF targetUser.id = userId THEN Outcome(st, ca, 0, Failure(SELF_SHARE))
     ELSE IF listIndex = 0 THEN Outcome(st, ca, 0, Failure(LIST_NOT_FOUND))
     ELSE IF list.ownerId # userId THEN Outcome(st, ca, 0, Failure(ONLY_OWNER_SHARES))
     ELSE IF Contains(list.sharedWith, userEmail) THEN Outcome(st, ca, 0, Failure(ALREADY_SHARED))
     ELSE IF Len(list.sharedWith) >= MAX_SHARED_USERS
       THEN Outcome(st, ca, 0, Failure(MAX_SHARED_USERS_EXCEEDED))
     ELSE IF ~sv.saved
       THEN Wrote(Outcome(sv.storage, sv.cache, 0, Failure(STORAGE_ERROR)), sv.key, sv.written)
     ELSE Wrote(Outcome(sv.storage, clearCache(sv.cache, targetUser.id), 0,
                        Response(TRUE, NoError, <<>>, <<>>, "Lista zostala udostepniona")),
                sv.key, sv.written)

addTask(st, ca, id, t, userId, listId, text, ok) ==
  LET errorList == SchemaAddTask(text)
      listData == findListById(st, userId, listId)
      list == listData.list
      newTask == [id |-> id, text |-> Trim(text), completed |-> FALSE,
                  createdAt |-> t, completedAt |-> 0]
      updatedList == [list EXCEPT !.tasks = Append(list.tasks, newTask), !.updatedAt = t]
      sv == saveUserLists(st, ca, listData.ownerId,
                          ReplaceAt(listData.ownerLists, listData.listIndex, updatedList), ok)
  IN IF errorList # <<>> THEN Outcome(st, ca, 0, Failure(FirstError(errorList, TASK_TEXT_REQUIRED)))
     ELSE IF ~listData.found THEN Outcome(st, ca, 0, Failure(LIST_NOT_FOUND))
     ELSE IF ~canUserEditList(list, userId) THEN Outcome(st, ca, 0, Failure(NO_EDIT_PERMISSION))
     ELSE IF Len(list.tasks) >= MAX_TASKS_PER_LIST THEN Outcome(st, ca, 0, Failure(MAX_TASKS_EXCEEDED))
     ELSE AfterSave(sv, 1, Response(TRUE, NoError, <<>>, << newTask >>, "Zadanie zostalo dodane"))

\* updates: [hasText, text, completed], completed "true", "false" or "undefined"
updateTask(st, ca, t, userId, listId, taskId, updates, ok) ==
  LET listData == findListById(st, userId, listId)
      list == listData.list
      HasId(task) == task.id = taskId
      taskIndex == FindIndex(list.tasks, HasId)
      textError == ValidateTaskText(updates.text)
      task == list.tasks[taskIndex]
      updatedTask ==
        [task EXCEPT
           !.text = IF updates.hasText /\ Trim(updates.text) # Empty
                    THEN Trim(updates.text) ELSE task.text,
           !.completed = IF updates.completed # "undefined"
                         THEN updates.completed = "true" ELSE task.completed,
           !.completedAt = IF updates.completed = "true" /\ ~task.completed
                           THEN t ELSE task.completedAt]
      updatedList ==
        [list EXCEPT !.tasks = [list.tasks EXCEPT ![taskIndex] = updatedTask], !.updatedAt = t]
      sv == saveUserLists(st, ca, listData.ownerId,
                          ReplaceAt(listData.ownerLists, listData.listIndex, updatedList), ok)
  IN IF ~listData.found THEN Outcome(st, ca, 0, Failure(LIST_NOT_FOUND))
     ELSE IF ~canUserEditList(list, userId) THEN Outcome(st, ca, 0, Failure(NO_EDIT_PERMISSION))
     ELSE IF taskIndex = 0 THEN Outcome(st, ca, 0, Failure(TASK_NOT_FOUND))
     ELSE IF updates.hasText /\ textError # NoError THEN Outcome(st, ca, 0, Failure(textError))
     ELSE AfterSave(sv, 0,
                    Response(TRUE, NoError, <<>>, << updatedTask >>, "Zadanie zostalo zaktualizowane"))

deleteTask(st, ca, t, userId, listId, taskId, ok) ==
  LET listData == findListById(st, userId, listId)
      list == listData.list
      OtherId(task) == task.id # taskId
      taskExists == \E i \in 1..Len(list.tasks) : list.tasks[i].id = taskId
      updatedList == [list EXCEPT !.tasks = Filter(list.tasks, OtherId), !.updatedAt = t]
      sv == saveUserLists(st, ca, listData.ownerId,
                          ReplaceAt(listData.ownerLists, listData.listIndex, updatedList), ok)
  IN IF ~listData.found THEN Outcome(st, ca, 0, Failure(LIST_NOT_FOUND))
     ELSE IF ~canUserEditList(list, userId) THEN Outcome(st, ca, 0, Failure(NO_EDIT_PERMISSION))
     ELSE IF ~taskExists THEN Outcome(st, ca, 0, Failure(TASK_NOT_FOUND))
     ELSE AfterSave(sv, 0, Response(TRUE, NoError, <<>>, <<>>, "Zadanie zostalo usuniete"))

\* a toggle that completes the task whatever it was
toggleTaskCompletes(st, ca, t, userId, listId, taskId, ok) ==
  updateTask(st, ca, t, userId, listId, taskId,
             [hasText |-> FALSE, text |-> Empty, completed |-> "true"], ok)

toggleTask(st, ca, t, userId, listId, taskId, ok) ==
  LET listData == findListById(st, userId, listId)
      list == listData.list
      HasId(task) == task.id = taskId
      taskIndex == FindIndex(list.tasks, HasId)
      task == list.tasks[taskIndex]
      updatedTask ==
        [task EXCEPT !.completed = ~task.completed,
                     !.completedAt = IF ~task.completed THEN t ELSE 0]
      updatedList ==
        [list EXCEPT !.tasks = [list.tasks EXCEPT ![taskIndex] = updatedTask], !.updatedAt = t]
      sv == saveUserLists(st, ca, listData.ownerId,
                          ReplaceAt(listData.ownerLists, listData.listIndex, updatedList), ok)
  IN IF ~listData.found THEN Outcome(st, ca, 0, Failure(LIST_NOT_FOUND))
     ELSE IF ~canUserEditList(list, userId) THEN Outcome(st, ca, 0, Failure(NO_EDIT_PERMISSION))
     ELSE IF taskIndex = 0 THEN Outcome(st, ca, 0, Failure(TASK_NOT_FOUND))
     ELSE AfterSave(sv, 0,
                    Response(TRUE, NoError, <<>>, << updatedTask >>,
                             IF updatedTask.completed THEN "Zadanie zostalo ukonczone"
                             ELSE "Zadanie zostalo oznaczone jako nieukonczone"))

\* exportLists that also caches what it read
exportListsCaching(st, ca, t, userId) ==
  LET currentLists == getItemOrEmpty(st, userId)
      HasId(u) == u.id = userId
      found == FindIndex(mockUsers, HasId)
      exportData == [version |-> "1.0.0", exportedAt |-> t,
                     user |-> [id |-> mockUsers[found].id, name |-> mockUsers[found].name,
                               email |-> mockUsers[found].email],
                     lists |-> currentLists]
  IN IF found = 0 THEN Outcome(st, ca, 0, Failure(USER_NOT_FOUND))
     ELSE Outcome(st, [ca EXCEPT ![<< userId, EmptyFilter >>] = [hit |-> TRUE, data |-> currentLists]],
                  0, Response(TRUE, NoError, << exportData >>, <<>>, "Lists exported successfully"))

exportLists(st, ca, t, userId) ==
  LET currentLists == getItemOrEmpty(st, userId)
      HasId(u) == u.id = userId
      found == FindIndex(mockUsers, HasId)
      exportData == [version |-> "1.0.0", exportedAt |-> t,
                     user |-> [id |-> mockUsers[found].id, name |-> mockUsers[found].name,
                               email |-> mockUsers[found].email],
                     lists |-> currentLists]
  IN IF found = 0 THEN Outcome(st, ca, 0, Failure(USER_NOT_FOUND))
     ELSE Outcome(st, ca, 0,
                  Response(TRUE, NoError, << exportData >>, <<>>, "Lists exported successfully"))

getListById(st, ca, userId, listId) ==
  LET listData == findListById(st, userId, listId)
  IN IF ~listData.found THEN Outcome(st, ca, 0, Failure(LIST_NOT_FOUND))
     ELSE IF ~canUserEditList(listData.list, userId)
       THEN Outcome(st, ca, 0, Failure(NO_VIEW_PERMISSION))
     ELSE Outcome(st, ca, 0,
                  Response(TRUE, NoError, << enrichList(listData.list, userId) >>, <<>>,
                           "List retrieved successfully"))

(***************************************************************************)
(* Inputs of the calls.                                                    *)
(***************************************************************************)
\* the clock at the start
StartTime == 2

\* the users that call the service
Callers == {u \in UserIds : u <= MaxCaller}

TitleInputs == { << "A" >>, << " " >>, Repeat(MAX_LIST_TITLE_LENGTH + 1) }

TextInputs == { << "t" >>, << " " >> }

InitialTasksInputs == { << << "t" >> >>, << << " " >> >> }

EmailInputs == { UserEmail, AnnaEmail, TestEmail, GhostEmail, BadEmail }

UpdateListInputs ==
  { [hasTitle |-> TRUE, title |-> << " ", "B", " " >>, hasSharedWith |-> FALSE, sharedWith |-> <<>>],
    [hasTitle |-> TRUE, title |-> << " " >>, hasSharedWith |-> FALSE, sharedWith |-> <<>>],
    [hasTitle |-> FALSE, title |-> Empty, hasSharedWith |-> TRUE,
     sharedWith |-> << TestEmail >>],
    [hasTitle |-> FALSE, title |-> Empty, hasSharedWith |-> TRUE,
     sharedWith |-> << BadEmail, BadEmail >>] }

UpdateTaskInputs ==
  { [hasText |-> FALSE, text |-> Empty, completed |-> "true"],
    [hasText |-> TRUE, text |-> << "u" >>, completed |-> "false"],
    [hasText |-> TRUE, text |-> << " " >>, completed |-> "undefined"] }

\* every list that some user stores
StoredListsOf(st) == UNION {Range(st[u].lists) : u \in UserIds}

\* the ids a caller passes for a list: a stored list's, or one no list has
ListIdInputs == {l.id : l \in StoredListsOf(storage)} \cup {MissingId}

\* the ids a caller passes for a task of the list: one of its first tasks, or
\* one no task has
TaskIdInputs(listId) ==
  UNION {{l.tasks[i].id : i \in {j \in 1..TaskPick : j <= Len(l.tasks)}} :
           l \in {m \in StoredListsOf(storage) : m.id = listId}} \cup {MissingId}

(***************************************************************************)
(* The state and the direct calls of the service.                          *)
(***************************************************************************)
NoUser == 0

initialListState ==
  [lists |-> <<>>, loading |-> FALSE, error |-> NoError, filter |-> InitialFilter,
   selectedListId |-> MissingId, lastSync |-> 0]

\* `effect`: the call changed something besides `last`
NoCall ==
  [op |-> "none", userId |-> NoUser, listId |-> MissingId, taskId |-> MissingId,
   filter |-> EmptyFilter, success |-> FALSE, error |-> NoError, data |-> <<>>,
   task |-> <<>>, message |-> "", write |-> "none", readFailed |-> FALSE,
   effect |-> FALSE, email |-> Empty, name |-> Empty, password |-> Empty]

\* a fresh process: nobody has tried to sign in and no session is stored
NoSession == [token |-> <<>>, userData |-> <<>>]

\* authReducer.ts: initialAuthState (null is the empty sequence)
initialAuthState ==
  [isLoading |-> TRUE, isSignout |-> FALSE, userToken |-> << >>, user |-> << >>, error |-> << >>]

\* the authentication service and the AuthProvider of a fresh process
InitAuthProcess ==
  /\ loginAttempts = << >>
  /\ minute = 0
  /\ attempted = << >>
  /\ authState = initialAuthState
  /\ authPending = << >>

InitAuth ==
  /\ InitAuthProcess
  /\ session = NoSession

\* the record of a call with the outcome o
Call(op, userId, listId, taskId, filter, o) ==
  [op |-> op, userId |-> userId, listId |-> listId, taskId |-> taskId, filter |-> filter,
   success |-> o.res.success, error |-> o.res.error, data |-> o.res.data,
   task |-> o.res.task, message |-> o.res.message, write |-> o.write,
   readFailed |-> o.readFailed, effect |-> FALSE, email |-> Empty, name |-> Empty,
   password |-> Empty]

\* what earlier runs of the application can have left in storage: nothing,
\* or the sample lists of user 1 (loaded at time 1) and an emptied
\* collection of user 2
PersistedInputs ==
  { [u \in UserIds |-> NothingStored],
    [u \in UserIds |-> IF u = 1 THEN Stored(SampleLists(1, FirstId, 1))
                       ELSE IF u = 2 THEN Stored(<<>>) ELSE NothingStored] }

Init ==
  /\ mockUsers = MOCK_USERS
  /\ storage \in PersistedInputs
  /\ cache = [key \in CacheKeys |-> NoEntry]
  /\ nextId = FirstId + SampleIds
  /\ now = StartTime
  /\ last = NoCall
  /\ user = NoUser
  /\ state = initialListState
  /\ deleted = {}
  /\ ioFailed = FALSE
  /\ pending = {}
  /\ InitAuth
  /\ cachedAt = [key \in CacheKeys |-> 0]

\* the calls so far that advanced the clock
OpsDone == now - StartTime

\* the keys the cache has an entry for
Hits(ca) == {key \in CacheKeys : ca[key].hit}

\* the call writes: to storage, by drawing ids, by dropping cache entries or
\* by deleting a list
Writes(o, del) ==
  \/ o.storage # storage
  \/ o.used # 0
  \/ ~(Hits(cache) \subseteq Hits(o.cache))
  \/ del # deleted

\* a call that changed nothing but `last` is followed by no call: whatever
\* can follow it can be called in its place
Settled == last.op = "none" \/ last.effect

\* the storing times after a call: cache.set gives an entry its time
Stamped(at, ca, ca2, t) ==
  [key \in CacheKeys |-> IF ca2[key].hit /\ ~ca[key].hit THEN t ELSE at[key]]

\* a call returns: storage, cache and the id generator are as the call left
\* them, and the clock has advanced if the call wrote or, `changed`, if it
\* changed something outside the service
Commit(max, o, call, del, changed) ==
  /\ Settled
  /\ (Writes(o, del) \/ changed) => OpsDone < max
  /\ Cardinality(Hits(o.cache)) <= MaxCached
  /\ storage' = o.storage
  /\ cache' = o.cache
  /\ cachedAt' = Stamped(cachedAt, cache, o.cache, minute)
  /\ nextId' = nextId + o.used
  /\ now' = IF Writes(o, del) \/ changed THEN now + 1 ELSE now
  /\ deleted' = del
  /\ ioFailed' = (ioFailed \/ o.write = "failed" \/ o.readFailed)
  /\ last' = [call EXCEPT !.effect = Writes(o, del) \/ o.cache # cache \/ changed]

\* a failing write is drawn only for a call that writes, and a failing read
\* only for a call that reads
Drawn(o, readOk, writeOk) ==
  /\ readOk \/ o.readFailed
  /\ writeOk \/ o.write = "failed"

\* a direct call of the service returns
Return(o, call, del) == Commit(MaxOps, o, call, del, FALSE)

LoadUserLists(u, f, readOk, writeOk) ==
  /\ Settled
  /\ \E o \in {loadUserLists(storage, cache, nextId, now, u, f, readOk, writeOk)} :
        /\ Drawn(o, readOk, writeOk)
        /\ Return(o, Call("loadUserLists", u, MissingId, MissingId, f, o), deleted)
  /\ UNCHANGED << authVars, mockUsers, user, state, pending >>

CreateList(u, title, initialTasks, ok) ==
  /\ Settled
  /\ \E o \in {createList(storage, cache, nextId, now, u, title, initialTasks, ok)} :
        /\ Drawn(o, TRUE, ok)
        /\ Return(o, Call("createList", u, MissingId, MissingId, EmptyFilter, o), deleted)
  /\ UNCHANGED << authVars, mockUsers, user, state, pending >>

UpdateList(u, listId, updates, ok) ==
  /\ Settled
  /\ \E o \in {updateList(storage, cache, now, u, listId, updates, ok)} :
        /\ Drawn(o, TRUE, ok)
        /\ Return(o, Call("updateList", u, listId, MissingId, EmptyFilter, o), deleted)
  /\ UNCHANGED << authVars, mockUsers, user, state, pending >>

\* the lists with this id that the user stores
OwnListsWithId(u, listId) == {l \in Range(storage[u].lists) : l.id = listId}

DeleteList(u, listId, ok) ==
  /\ Settled
  /\ \E o \in {deleteList(storage, cache, u, listId, ok)} :
        /\ Drawn(o, TRUE, ok)
        /\ Return(o, Call("deleteList", u, listId, MissingId, EmptyFilter, o),
                  IF o.res.success THEN deleted \cup OwnListsWithId(u, listId) ELSE deleted)
  /\ UNCHANGED << authVars, mockUsers, user, state, pending >>

ShareList(u, listId, userEmail, ok) ==
  /\ Settled
  /\ \E o \in {shareList(storage, cache, now, u, listId, userEmail, ok)} :
        /\ Drawn(o, TRUE, ok)
        /\ Return(o, Call("shareList", u, listId, MissingId, EmptyFilter, o), deleted)
  /\ UNCHANGED << authVars, mockUsers, user, state, pending >>

AddTask(u, listId, text, ok) ==
  /\ Settled
  /\ \E o \in {addTask(storage, cache, nextId, now, u, listId, text, ok)} :
        /\ Drawn(o, TRUE, ok)
        /\ Return(o, Call("addTask", u, listId, MissingId, EmptyFilter, o), deleted)
  /\ UNCHANGED << authVars, mockUsers, user, state, pending >>

UpdateTask(u, listId, taskId, updates, ok) ==
  /\ Settled
  /\ \E o \in {updateTask(storage, cache, now, u, listId, taskId, updates, ok)} :
        /\ Drawn(o, TRUE, ok)
        /\ Return(o, Call("updateTask", u, listId, taskId, EmptyFilter, o), deleted)
  /\ UNCHANGED << authVars, mockUsers, user, state, pending >>

DeleteTask(u, listId, taskId, ok) ==
  /\ Settled
  /\ \E o \in {deleteTask(storage, cache, now, u, listId, taskId, ok)} :
        /\ Drawn(o, TRUE, ok)
        /\ Return(o, Call("deleteTask", u, listId, taskId, EmptyFilter, o), deleted)
  /\ UNCHANGED << authVars, mockUsers, user, state, pending >>

ToggleTask(u, listId, taskId, ok) ==
  /\ Settled
  /\ \E o \in {toggleTask(storage, cache, now, u, listId, taskId, ok)} :
        /\ Drawn(o, TRUE, ok)
        /\ Return(o, Call("toggleTask", u, listId, taskId, EmptyFilter, o), deleted)
  /\ UNCHANGED << authVars, mockUsers, user, state, pending >>

GetListById(u, listId) ==
  /\ Settled
  /\ \E o \in {getListById(storage, cache, u, listId)} :
       Return(o, Call("getListById", u, listId, MissingId, EmptyFilter, o), deleted)
  /\ UNCHANGED << authVars, mockUsers, user, state, pending >>

ExportLists(u) ==
  /\ Settled
  /\ \E o \in {exportLists(storage, cache, now, u)} :
       Return(o, Call("exportLists", u, MissingId, MissingId, EmptyFilter, o), deleted)
  /\ UNCHANGED << authVars, mockUsers, user, state, pending >>

Next ==
  \/ \E u \in Callers, f \in LoadFilters, readOk \in BOOLEAN, writeOk \in BOOLEAN :
       LoadUserLists(u, f, readOk, writeOk)
  \/ \E u \in Callers, title \in TitleInputs, initialTasks \in InitialTasksInputs, ok \in BOOLEAN :
       CreateList(u, title, initialTasks, ok)
  \/ \E u \in Callers, listId \in ListIdInputs, updates \in UpdateListInputs, ok \in BOOLEAN :
       UpdateList(u, listId, updates, ok)
  \/ \E u \in Callers, listId \in ListIdInputs, ok \in BOOLEAN :
       DeleteList(u, listId, ok)
  \/ \E u \in Callers, listId \in ListIdInputs, userEmail \in EmailInputs, ok \in BOOLEAN :
       ShareList(u, listId, userEmail, ok)
  \/ \E u \in Callers, listId \in ListIdInputs, text \in TextInputs, ok \in BOOLEAN :
       AddTask(u, listId, text, ok)
  \/ \E u \in Callers, listId \in ListIdInputs, updates \in UpdateTaskInputs, ok \in BOOLEAN :
       \E taskId \in TaskIdInputs(listId) : UpdateTask(u, listId, taskId, updates, ok)
  \/ \E u \in Callers, listId \in ListIdInputs, ok \in BOOLEAN :
       \E taskId \in TaskIdInputs(listId) : DeleteTask(u, listId, taskId, ok)
  \/ \E u \in Callers, listId \in ListIdInputs, ok \in BOOLEAN :
       \E taskId \in TaskIdInputs(listId) : ToggleTask(u, listId, taskId, ok)
  \/ \E u \in Callers, listId \in ListIdInputs : GetListById(u, listId)
  \/ \E u \in Callers : ExportLists(u)

Spec == Init /\ [][Next]_vars

(***************************************************************************)
(* Properties of the list service, checked under Spec.                     *)
(***************************************************************************)
\* the calls that edit, delete or share a list
MutatingOps ==
  {"updateList", "addTask", "updateTask", "deleteTask", "toggleTask", "deleteList", "shareList"}

\* the calls that write to a list and leave it stored
WriteOps ==
  {"createList", "updateList", "shareList", "addTask", "updateTask", "deleteTask", "toggleTask"}

\* the user is neither the owner of the list nor named in its sharedWith
IsStranger(l, u) == l.ownerId # u /\ getCurrentUserEmail(u) \notin Range(l.sharedWith)

\* the user owns the list or is named in its sharedWith
IsVisibleTo(l, v) == l.ownerId = v \/ getCurrentUserEmail(v) \in Range(l.sharedWith)

\* the number of entries of a load result that have the id
Occurrences(data, listId) == Cardinality({i \in 1..Len(data) : data[i].id = listId})

NoDuplicates(seq) == \A i, j \in 1..Len(seq) : seq[i] = seq[j] => i = j

\* what loadUserLists returns to the user when it reads storage
UncachedLoad(v, f) == LoadFromStorage(storage, cache, nextId, now, v, f, TRUE, TRUE).res.data

\* C1: a call by a user who is neither owner of a list nor named in its
\* sharedWith to updateList, addTask, updateTask, deleteTask, toggleTask,
\* deleteList or shareList on that list never returns success, and the list
\* is stored after the call exactly as it was before it.
C1_StrangerNeverChangesList ==
  [][\A l \in StoredListsOf(storage) :
       (last'.op \in MutatingOps /\ last'.listId = l.id /\ IsStranger(l, last'.userId))
         => (~last'.success /\ l \in StoredListsOf(storage'))]_vars

\* a stranger's shareList on a stored list has returned "list not found"
C1_Witness ==
  /\ last.op = "shareList"
  /\ last.error = LIST_NOT_FOUND
  /\ \E l \in StoredListsOf(storage) : l.id = last.listId /\ IsStranger(l, last.userId)

\* C2: no call by a user who is not the owner of a list changes the list's
\* sharedWith or removes the list from storage.
C2_OnlyOwnerChangesSharing ==
  [][\A l \in StoredListsOf(storage) :
       (last'.op # "none" /\ last'.userId # l.ownerId)
         => \E m \in StoredListsOf(storage') : m.id = l.id /\ m.sharedWith = l.sharedWith]_vars

\* C3: when no storage access has failed, a successful loadUserLists by the
\* owner of a deleted list, or by a user named in its sharedWith when it was
\* deleted, does not return the list.
C3_DeletedListIsNotLoaded ==
  (last.op = "loadUserLists" /\ last.success /\ ~ioFailed) =>
    \A d \in deleted :
      IsVisibleTo(d, last.userId) => Occurrences(last.data, d.id) = 0

\* C4: when no storage access has failed, loadUserLists with the empty filter
\* returns every stored list the user owns or is named in exactly once and no
\* other stored list; an entry of a list the user does not own has
\* isOwner = false, canEdit = true, canDelete = false and canShare = false.
C4_LoadReturnsTheVisibleLists ==
  (/\ last.op = "loadUserLists"
   /\ last.filter = EmptyFilter
   /\ last.success
   /\ ~ioFailed) =>
    \A l \in StoredListsOf(storage) :
      /\ Occurrences(last.data, l.id) = IF IsVisibleTo(l, last.userId) THEN 1 ELSE 0
      /\ \A i \in 1..Len(last.data) :
           (last.data[i].id = l.id /\ l.ownerId # last.userId) =>
             /\ ~last.data[i].isOwner
             /\ last.data[i].canEdit
             /\ ~last.data[i].canDelete
             /\ ~last.data[i].canShare

\* the lists a successful write has written: the created list, or the stored
\* lists with the id the call named
WrittenLists ==
  IF last.op = "createList" THEN {PlainList(last.data[i]) : i \in 1..Len(last.data)}
  ELSE {l \in StoredListsOf(storage) : l.id = last.listId}

\* C5: when no storage access has failed, after a successful write to a list
\* no cache entry of the writer, of the list's owner or of a user named in
\* the list's sharedWith after the write differs from what an uncached
\* loadUserLists would return.
C5_NoStaleCacheAfterWrite ==
  (last.op \in WriteOps /\ last.success /\ ~ioFailed) =>
    \A v \in UserIds, f \in Filters :
      (/\ v = last.userId \/ \E l \in WrittenLists : IsVisibleTo(l, v)
       /\ cache[<<v, f>>].hit)
        => cache[<<v, f>>].data = UncachedLoad(v, f)

\* C6: every stored list's sharedWith has at most MAX_SHARED_USERS entries,
\* no entry twice and only well-formed e-mails.
C6_SharedWithIsWellFormed ==
  \A l \in StoredListsOf(storage) :
    /\ Len(l.sharedWith) <= MAX_SHARED_USERS
    /\ NoDuplicates(l.sharedWith)
    /\ \A i \in 1..Len(l.sharedWith) : isValidEmail(l.sharedWith[i])

\* C8: a call that returns success = false leaves every user's stored
\* collection as it was before the call.
C8_FailedCallWritesNothing ==
  [][(last'.op # "none" /\ ~last'.success) => storage' = storage]_vars

\* shareList has failed on the duplicate check, after every other check
C8_Witness ==
  /\ last.op = "shareList"
  /\ last.error = ALREADY_SHARED
  /\ \E l \in StoredListsOf(storage) : l.id = last.listId /\ l.ownerId = last.userId

(***************************************************************************)
(* The reducer of the ListProvider (context/listReducer.ts).  An action is *)
(* [type, payload]; `t` is the reading of the clock.                       *)
(***************************************************************************)
Action(type, payload) == [type |-> type, payload |-> payload]

\* { ...a, ...b } for a b that has fields of a only
Merge(a, b) == [k \in DOMAIN a |-> IF k \in DOMAIN b THEN b[k] ELSE a[k]]

\* lists.map((list) => (list.id === listId ? F(list) : list))
MapList(lists, listId, F(_)) ==
  [i \in 1..Len(lists) |-> IF lists[i].id = listId THEN F(lists[i]) ELSE lists[i]]

\* the list of ADD_TASK
WithTaskAdded(list, task) ==
  [list EXCEPT
     !.tasks = Append(list.tasks, task),
     !.statistics =
        [list.statistics EXCEPT
           !.totalTasks = list.statistics.totalTasks + 1,
           !.pendingTasks = list.statistics.pendingTasks + 1,
           !.completionPercentage =
              IF list.statistics.totalTasks > 0
              THEN Percentage(list.statistics.completedTasks, list.statistics.totalTasks + 1)
              ELSE ZeroPercent]]

\* the list of UPDATE_TASK
WithTaskUpdated(list, taskId, updates, t) ==
  LET updatedTasks ==
        [i \in 1..Len(list.tasks) |->
           IF list.tasks[i].id = taskId THEN Merge(list.tasks[i], updates) ELSE list.tasks[i]]
      totalTasks == Len(updatedTasks)
      completedTasks == Len(Filter(updatedTasks, IsCompleted))
      pendingTasks == totalTasks - completedTasks
      completionPercentage ==
        IF totalTasks > 0 THEN Percentage(completedTasks, totalTasks) ELSE ZeroPercent
  IN [list EXCEPT
        !.tasks = updatedTasks,
        !.statistics =
           [list.statistics EXCEPT
              !.totalTasks = totalTasks,
              !.completedTasks = completedTasks,
              !.pendingTasks = pendingTasks,
              !.completionPercentage = completionPercentage,
              !.lastActivity = t]]

\* a DELETE_TASK that lowers totalTasks and leaves pendingTasks as it is
WithTaskDeletedTotalOnly(list, taskId) ==
  LET OtherId(task) == task.id # taskId
  IN [list EXCEPT
        !.tasks = Filter(list.tasks, OtherId),
        !.statistics =
           [list.statistics EXCEPT !.totalTasks = list.statistics.totalTasks - 1]]

\* the list of DELETE_TASK
WithTaskDeleted(list, taskId) ==
  LET OtherId(task) == task.id # taskId
  IN [list EXCEPT
        !.tasks = Filter(list.tasks, OtherId),
        !.statistics =
           [list.statistics EXCEPT
              !.totalTasks = list.statistics.totalTasks - 1,
              !.pendingTasks = list.statistics.pendingTasks - 1,
              !.completionPercentage =
                 IF list.statistics.totalTasks > 1
                 THEN Percentage(list.statistics.completedTasks, list.statistics.totalTasks - 1)
                 ELSE ZeroPercent]]

\* listReducer with a DELETE_LIST that keeps the selection
listReducerKeepsSelection(s, action, t) ==
  LET payload == action.payload
      Updated(list) == Merge(list, payload.updates)
      Added(list) == WithTaskAdded(list, payload.task)
      Changed(list) == WithTaskUpdated(list, payload.taskId, payload.updates, t)
      Removed(list) == WithTaskDeleted(list, payload.taskId)
      OtherList(list) == list.id # payload
  IN CASE action.type = "SET_LOADING" -> [s EXCEPT !.loading = payload]
       [] action.type = "SET_ERROR" -> [s EXCEPT !.error = payload, !.loading = FALSE]
       [] action.type = "CLEAR_ERROR" -> [s EXCEPT !.error = NoError]
       [] action.type = "SET_LISTS" ->
            [s EXCEPT !.lists = payload, !.loading = FALSE, !.error = NoError, !.lastSync = t]
       [] action.type = "ADD_LIST" ->
            [s EXCEPT !.lists = << payload >> \o s.lists, !.error = NoError]
       [] action.type = "UPDATE_LIST" ->
            [s EXCEPT !.lists = MapList(s.lists, payload.listId, Updated), !.error = NoError]
       [] action.type = "DELETE_LIST" ->
            [s EXCEPT !.lists = Filter(s.lists, OtherList), !.error = NoError]
       [] action.type = "ADD_TASK" ->
            [s EXCEPT !.lists = MapList(s.lists, payload.listId, Added), !.error = NoError]
       [] action.type = "UPDATE_TASK" ->
            [s EXCEPT !.lists = MapList(s.lists, payload.listId, Changed), !.error = NoError]
       [] action.type = "DELETE_TASK" ->
            [s EXCEPT !.lists = MapList(s.lists, payload.listId, Removed), !.error = NoError]
       [] action.type = "SET_FILTER" -> [s EXCEPT !.filter = Merge(s.filter, payload)]
       [] action.type = "SET_SELECTED_LIST" -> [s EXCEPT !.selectedListId = payload]
       [] action.type = "SET_LAST_SYNC" -> [s EXCEPT !.lastSync = payload]
       [] OTHER -> s

listReducer(s, action, t) ==
  LET payload == action.payload
      Updated(list) == Merge(list, payload.updates)
      Added(list) == WithTaskAdded(list, payload.task)
      Changed(list) == WithTaskUpdated(list, payload.taskId, payload.updates, t)
      Removed(list) == WithTaskDeleted(list, payload.taskId)
      OtherList(list) == list.id # payload
  IN CASE action.type = "SET_LOADING" -> [s EXCEPT !.loading = payload]
       [] action.type = "SET_ERROR" -> [s EXCEPT !.error = payload, !.loading = FALSE]
       [] action.type = "CLEAR_ERROR" -> [s EXCEPT !.error = NoError]
       [] action.type = "SET_LISTS" ->
            [s EXCEPT !.lists = payload, !.loading = FALSE, !.error = NoError, !.lastSync = t]
       [] action.type = "ADD_LIST" ->
            [s EXCEPT !.lists = << payload >> \o s.lists, !.error = NoError]
       [] action.type = "UPDATE_LIST" ->
            [s EXCEPT !.lists = MapList(s.lists, payload.listId, Updated), !.error = NoError]
       [] action.type = "DELETE_LIST" ->
            [s EXCEPT !.lists = Filter(s.lists, OtherList),
                      !.selectedListId =
                         IF s.selectedListId = payload THEN MissingId ELSE s.selectedListId,
                      !.error = NoError]
       [] action.type = "ADD_TASK" ->
            [s EXCEPT !.lists = MapList(s.lists, payload.listId, Added), !.error = NoError]
       [] action.type = "UPDATE_TASK" ->
            [s EXCEPT !.lists = MapList(s.lists, payload.listId, Changed), !.error = NoError]
       [] action.type = "DELETE_TASK" ->
            [s EXCEPT !.lists = MapList(s.lists, payload.listId, Removed), !.error = NoError]
       [] action.type = "SET_FILTER" -> [s EXCEPT !.filter = Merge(s.filter, payload)]
       [] action.type = "SET_SELECTED_LIST" -> [s EXCEPT !.selectedListId = payload]
       [] action.type = "SET_LAST_SYNC" -> [s EXCEPT !.lastSync = payload]
       [] OTHER -> s

(***************************************************************************)
(* The ListProvider (context/ListContext.tsx).  `user` is the user of the  *)
(* AuthContext; a handler runs to its end before the next one starts.      *)
(***************************************************************************)
NOT_LOGGED_IN == "Uzytkownik nie jest zalogowany"

\* result.error || fallback
ErrorOr(error, fallback) == IF error # NoError THEN error ELSE fallback

\* the outcome of a handler that called the service twice
Then(o1, o2) ==
  [o2 EXCEPT !.used = o1.used + o2.used,
             !.res = o1.res,
             !.write = IF o1.write = "failed" \/ o2.write = "failed" THEN "failed"
                       ELSE IF o1.write = "done" \/ o2.write = "done" THEN "done" ELSE "none",
             !.key = o1.key,
             !.readFailed = o1.readFailed \/ o2.readFailed]

\* a handler returns without calling the service
NoServiceCall(st, ca, res) == Outcome(st, ca, 0, res)

\* refreshLists of a render with user u and state s: the outcome of its
\* service call and the state after its dispatches
refreshLists(s, u, st, ca, id, t, readOk, writeOk) ==
  LET s1 == listReducer(listReducer(s, Action("SET_LOADING", TRUE), t),
                        Action("CLEAR_ERROR", <<>>), t)
      o == loadUserLists(st, ca, id, t, u, s.filter, readOk, writeOk)
  IN IF u = NoUser THEN [o |-> NoServiceCall(st, ca, Failure(NoError)), state |-> s]
     ELSE IF o.res.success
       THEN [o |-> o, state |-> listReducer(s1, Action("SET_LISTS", o.res.data), t)]
     ELSE [o |-> o,
           state |-> listReducer(s1, Action("SET_ERROR",
                                            ErrorOr(o.res.error, "Blad ladowania list")), t)]

\* the effect on [user, refreshLists]
userEffect(s, u, st, ca, id, t, readOk, writeOk) ==
  IF u # NoUser THEN refreshLists(s, u, st, ca, id, t, readOk, writeOk)
  ELSE [o |-> NoServiceCall(st, ca, Failure(NoError)),
        state |-> listReducer(s, Action("SET_LISTS", <<>>), t)]

\* the state after a handler's dispatches for the result of its service call
Dispatched(s, res, onSuccess, fallback, t) ==
  LET s1 == listReducer(s, Action("CLEAR_ERROR", <<>>), t)
  IN IF res.success THEN listReducer(s1, onSuccess, t)
     ELSE listReducer(s1, Action("SET_ERROR", ErrorOr(res.error, fallback)), t)

\* the state changed in more than the error it shows
StateChanged(s2) == [s2 EXCEPT !.error = NoError] # [state EXCEPT !.error = NoError]

\* a handler of the provider returns, with state s2 and AuthContext user u2;
\* a handler that changed nothing but `last` and the error shown is followed
\* by no call
CtxReturn(o, call, del, s2, u2) ==
  /\ Commit(MaxCtxOps, o, call, del, StateChanged(s2) \/ u2 # user)
  /\ state' = s2
  /\ user' = u2

\* the ids a handler is called with for a list: of a list shown, of a list
\* stored, or one no list has
CtxListIdInputs == ListIdInputs \cup {state.lists[i].id : i \in 1..Len(state.lists)}

\* setFilter is called with these partial filters
SetFilterInputs == { [showCompleted |-> "false"], [showCompleted |-> "true"] }

\* the AuthContext user changes: the effect runs
CtxSetUser(u, readOk, writeOk) ==
  /\ Settled
  /\ u # user
  /\ \E r \in {userEffect(state, u, storage, cache, nextId, now, readOk, writeOk)} :
        /\ Drawn(r.o, readOk, writeOk)
        /\ CtxReturn(r.o,
                     IF u = NoUser THEN NoCall
                     ELSE Call("loadUserLists", u, MissingId, MissingId, state.filter, r.o),
                     deleted, r.state, u)
  /\ UNCHANGED << authVars, mockUsers, pending >>

\* setFilter: SET_FILTER makes a new refreshLists, so the effect runs
CtxSetFilter(partial, readOk, writeOk) ==
  /\ Settled
  /\ \E s1 \in {listReducer(state, Action("SET_FILTER", partial), now)} :
     \E r \in {userEffect(s1, user, storage, cache, nextId, now, readOk, writeOk)} :
        /\ Drawn(r.o, readOk, writeOk)
        /\ CtxReturn(r.o,
                     IF user = NoUser THEN NoCall
                     ELSE Call("loadUserLists", user, MissingId, MissingId, s1.filter, r.o),
                     deleted, r.state, user)
  /\ UNCHANGED << authVars, mockUsers, pending >>

CtxSetSelectedList(listId) ==
  /\ Settled
  /\ CtxReturn(NoServiceCall(storage, cache, Failure(NoError)), NoCall, deleted,
               listReducer(state, Action("SET_SELECTED_LIST", listId), now), user)
  /\ UNCHANGED << authVars, mockUsers, pending >>

CtxRefreshLists(readOk, writeOk) ==
  /\ Settled
  /\ user # NoUser
  /\ \E r \in {refreshLists(state, user, storage, cache, nextId, now, readOk, writeOk)} :
        /\ Drawn(r.o, readOk, writeOk)
        /\ CtxReturn(r.o, Call("loadUserLists", user, MissingId, MissingId, state.filter, r.o),
                     deleted, r.state, user)
  /\ UNCHANGED << authVars, mockUsers, pending >>

\* a handler called while no user is signed in
CtxNotLoggedIn(op) ==
  /\ Settled
  /\ user = NoUser
  /\ \E o \in {NoServiceCall(storage, cache, Failure(NOT_LOGGED_IN))} :
       CtxReturn(o, Call(op, NoUser, MissingId, MissingId, EmptyFilter, o), deleted, state, user)
  /\ UNCHANGED << authVars, mockUsers, pending >>

CtxCreateList(title, initialTasks, ok) ==
  /\ Settled
  /\ user # NoUser
  /\ \E o \in {createList(storage, cache, nextId, now, user, title, initialTasks, ok)} :
        /\ Drawn(o, TRUE, ok)
        /\ CtxReturn(o, Call("createList", user, MissingId, MissingId, EmptyFilter, o), deleted,
                     Dispatched(state, o.res, Action("ADD_LIST", o.res.data[1]),
                                "Blad tworzenia listy", now), user)
  /\ UNCHANGED << authVars, mockUsers, pending >>

CtxUpdateList(listId, updates, ok) ==
  /\ Settled
  /\ user # NoUser
  /\ \E o \in {updateList(storage, cache, now, user, listId, updates, ok)} :
        /\ Drawn(o, TRUE, ok)
        /\ CtxReturn(o, Call("updateList", user, listId, MissingId, EmptyFilter, o), deleted,
                     Dispatched(state, o.res,
                                Action("UPDATE_LIST", [listId |-> listId, updates |-> o.res.data[1]]),
                                "Blad aktualizacji listy", now), user)
  /\ UNCHANGED << authVars, mockUsers, pending >>

CtxDeleteList(listId, ok) ==
  /\ Settled
  /\ user # NoUser
  /\ \E o \in {deleteList(storage, cache, user, listId, ok)} :
        /\ Drawn(o, TRUE, ok)
        /\ CtxReturn(o, Call("deleteList", user, listId, MissingId, EmptyFilter, o),
                     IF o.res.success THEN deleted \cup OwnListsWithId(user, listId) ELSE deleted,
                     Dispatched(state, o.res, Action("DELETE_LIST", listId),
                                "Blad usuwania listy", now), user)
  /\ UNCHANGED << authVars, mockUsers, pending >>

\* the state after shareList's UPDATE_LIST: the list shown, if any, gets the
\* e-mail appended
SharedShown(s, listId, userEmail, t) ==
  LET HasId(l) == l.id = listId
      index == FindIndex(s.lists, HasId)
  IN IF index = 0 THEN s
     ELSE listReducer(s,
            Action("UPDATE_LIST",
                   [listId |-> listId,
                    updates |-> [sharedWith |-> Append(s.lists[index].sharedWith, userEmail)]]),
            t)

\* shareList: on success SharedShown, then refreshLists
CtxShareList(listId, userEmail, ok, readOk, writeOk) ==
  /\ Settled
  /\ user # NoUser
  /\ \E o \in {shareList(storage, cache, now, user, listId, userEmail, ok)},
        s1 \in {listReducer(state, Action("CLEAR_ERROR", <<>>), now)} :
        /\ Drawn(o, TRUE, ok)
        /\ IF o.res.success
           THEN \E r \in {refreshLists(SharedShown(s1, listId, userEmail, now), user,
                                       o.storage, o.cache, nextId + o.used, now,
                                       readOk, writeOk)} :
                  /\ Drawn(r.o, readOk, writeOk)
                  /\ CtxReturn(Then(o, r.o),
                               Call("shareList", user, listId, MissingId, EmptyFilter, o),
                               deleted, r.state, user)
           ELSE /\ readOk /\ writeOk
                /\ CtxReturn(o, Call("shareList", user, listId, MissingId, EmptyFilter, o),
                             deleted,
                             listReducer(s1, Action("SET_ERROR",
                                                    ErrorOr(o.res.error,
                                                            "Blad udostepniania listy")),
                                         now), user)
  /\ UNCHANGED << authVars, mockUsers, pending >>

CtxAddTask(listId, text, ok) ==
  /\ Settled
  /\ user # NoUser
  /\ \E o \in {addTask(storage, cache, nextId, now, user, listId, text, ok)} :
        /\ Drawn(o, TRUE, ok)
        /\ CtxReturn(o, Call("addTask", user, listId, MissingId, EmptyFilter, o), deleted,
                     Dispatched(state, o.res,
                                Action("ADD_TASK", [listId |-> listId, task |-> o.res.task[1]]),
                                "Blad dodawania zadania", now), user)
  /\ UNCHANGED << authVars, mockUsers, pending >>

CtxUpdateTask(listId, taskId, updates, ok) ==
  /\ Settled
  /\ user # NoUser
  /\ \E o \in {updateTask(storage, cache, now, user, listId, taskId, updates, ok)} :
        /\ Drawn(o, TRUE, ok)
        /\ CtxReturn(o, Call("updateTask", user, listId, taskId, EmptyFilter, o), deleted,
                     Dispatched(state, o.res,
                                Action("UPDATE_TASK",
                                       [listId |-> listId, taskId |-> taskId,
                                        updates |-> o.res.task[1]]),
                                "Blad aktualizacji zadania", now), user)
  /\ UNCHANGED << authVars, mockUsers, pending >>

CtxDeleteTask(listId, taskId, ok) ==
  /\ Settled
  /\ user # NoUser
  /\ \E o \in {deleteTask(storage, cache, now, user, listId, taskId, ok)} :
        /\ Drawn(o, TRUE, ok)
        /\ CtxReturn(o, Call("deleteTask", user, listId, taskId, EmptyFilter, o), deleted,
                     Dispatched(state, o.res,
                                Action("DELETE_TASK", [listId |-> listId, taskId |-> taskId]),
                                "Blad usuwania zadania", now), user)
  /\ UNCHANGED << authVars, mockUsers, pending >>

CtxToggleTask(listId, taskId, ok) ==
  /\ Settled
  /\ user # NoUser
  /\ \E o \in {toggleTask(storage, cache, now, user, listId, taskId, ok)} :
        /\ Drawn(o, TRUE, ok)
        /\ CtxReturn(o, Call("toggleTask", user, listId, taskId, EmptyFilter, o), deleted,
                     Dispatched(state, o.res,
                                Action("UPDATE_TASK",
                                       [listId |-> listId, taskId |-> taskId,
                                        updates |-> o.res.task[1]]),
                                "Blad zmiany statusu zadania", now), user)
  /\ UNCHANGED << authVars, mockUsers, pending >>

\* listService.getListById called for the signed-in user
CtxGetListById(listId) ==
  /\ Settled
  /\ user # NoUser
  /\ \E o \in {getListById(storage, cache, user, listId)} :
       CtxReturn(o, Call("getListById", user, listId, MissingId, EmptyFilter, o), deleted, state, user)
  /\ UNCHANGED << authVars, mockUsers, pending >>

NextCtx ==
  \/ \E u \in Callers \cup {NoUser}, readOk \in BOOLEAN, writeOk \in BOOLEAN :
       CtxSetUser(u, readOk, writeOk)
  \/ \E partial \in SetFilterInputs, readOk \in BOOLEAN, writeOk \in BOOLEAN :
       CtxSetFilter(partial, readOk, writeOk)
  \/ \E listId \in CtxListIdInputs : CtxSetSelectedList(listId)
  \/ \E readOk \in BOOLEAN, writeOk \in BOOLEAN : CtxRefreshLists(readOk, writeOk)
  \/ \E op \in MutatingOps \cup WriteOps : CtxNotLoggedIn(op)
  \/ \E title \in TitleInputs, initialTasks \in InitialTasksInputs, ok \in BOOLEAN :
       CtxCreateList(title, initialTasks, ok)
  \/ \E listId \in CtxListIdInputs, updates \in UpdateListInputs, ok \in BOOLEAN :
       CtxUpdateList(listId, updates, ok)
  \/ \E listId \in CtxListIdInputs, ok \in BOOLEAN : CtxDeleteList(listId, ok)
  \/ \E listId \in CtxListIdInputs, userEmail \in EmailInputs, ok \in BOOLEAN,
        readOk \in BOOLEAN, writeOk \in BOOLEAN :
       CtxShareList(listId, userEmail, ok, readOk, writeOk)
  \/ \E listId \in CtxListIdInputs, text \in TextInputs, ok \in BOOLEAN :
       CtxAddTask(listId, text, ok)
  \/ \E listId \in CtxListIdInputs, updates \in UpdateTaskInputs, ok \in BOOLEAN :
       \E taskId \in TaskIdInputs(listId) : CtxUpdateTask(listId, taskId, updates, ok)
  \/ \E listId \in CtxListIdInputs, ok \in BOOLEAN :
       \E taskId \in TaskIdInputs(listId) : CtxDeleteTask(listId, taskId, ok)
  \/ \E listId \in CtxListIdInputs, ok \in BOOLEAN :
       \E taskId \in TaskIdInputs(listId) : CtxToggleTask(listId, taskId, ok)
  \/ \E listId \in CtxListIdInputs : CtxGetListById(listId)

SpecCtx == Init /\ [][NextCtx]_vars

\* C7: a mutating call whose storage write failed returns success = false
\* with the storage error, and the lists the reducer holds are the ones it
\* held before the call.
C7_FailedWriteReportsFailure ==
  [][(last'.op \in MutatingOps \cup WriteOps /\ last'.write = "failed") =>
       (~last'.success /\ last'.error = STORAGE_ERROR /\ state'.lists = state.lists)]_vars

\* completedTasks + pendingTasks = totalTasks in the statistics of the list
StatisticsAddUp(list) ==
  list.statistics.completedTasks + list.statistics.pendingTasks = list.statistics.totalTasks

\* C10: completedTasks + pendingTasks = totalTasks holds of every list the
\* service has returned and of every list in the state of the reducer.
C10_StatisticsAddUp ==
  /\ \A i \in 1..Len(last.data) : StatisticsAddUp(last.data[i])
  /\ \A i \in 1..Len(state.lists) : StatisticsAddUp(state.lists[i])

\* deleteTask has succeeded and DELETE_TASK has removed a task from a list
\* that is shown
C10_Witness ==
  /\ last.op = "deleteTask"
  /\ last.success
  /\ \E i \in 1..Len(state.lists) :
       /\ state.lists[i].id = last.listId
       /\ state.lists[i].statistics.totalTasks = Len(state.lists[i].tasks)
       /\ \A j \in 1..Len(state.lists[i].tasks) : state.lists[i].tasks[j].id # last.taskId

(***************************************************************************)
(* Overlapping calls of the service.  A mutating method is an async        *)
(* function: it validates its input, awaits the read of the collection     *)
(* (storage.getItem, directly or in findListById), and when the read has   *)
(* been delivered it mutates the collection it read in memory and writes   *)
(* the whole of it back with saveUserLists.  Other calls run while it      *)
(* awaits.  `pending` holds the calls that have read, and, as history,     *)
(* those that have returned.  A call with an invalid input returns before  *)
(* it reads (the actions of Spec); it is not a call of these actions.      *)
(***************************************************************************)
MaxConc == 2

\* the calls that have returned
Done == {p \in pending : p.phase = "done"}

\* the number of reads and returns so far
Events == Cardinality(pending) + Cardinality(Done)

\* a call that has read the stored collections and awaits the continuation
Reading(op, userId, listId, text, initialTasks) ==
  [n |-> Cardinality(pending) + 1, op |-> op, userId |-> userId, listId |-> listId,
   text |-> text, tasks |-> initialTasks, snapshot |-> storage, began |-> Events + 1,
   phase |-> "reading", ended |-> 0, success |-> FALSE, key |-> NoKey,
   change |-> MissingId, after |-> <<>>]

\* the collections the continuation of the call works on, while st is stored:
\* those of the state its read was served in
AwaitedReadAtResume(p, st) == st

AwaitedRead(p, st) == p.snapshot

\* the continuation of the call: the rest of the method on what the call read
Continue(p, st, ca, id, t) ==
  IF p.op = "addTask"
  THEN addTask(AwaitedRead(p, st), ca, id, t, p.userId, p.listId, p.text, TRUE)
  ELSE createList(AwaitedRead(p, st), ca, id, t, p.userId, p.text, p.tasks, TRUE)

\* storage.setItem of the call's outcome: the one key it wrote is replaced
SetItemOf(o, st) == IF o.write = "done" THEN [st EXCEPT ![o.key] = o.storage[o.key]] ELSE st

\* the call has returned with the outcome o, leaving `stored`
Returned(p, o, stored) ==
  [p EXCEPT !.phase = "done", !.ended = Events + 1, !.success = o.res.success,
            !.key = o.key, !.change = IF o.used > 0 THEN nextId ELSE MissingId,
            !.after = IF o.key # NoKey THEN stored[o.key].lists ELSE <<>>]

BeginCall(p) ==
  /\ Cardinality(pending) < MaxConc
  /\ pending' = pending \cup {p}
  /\ UNCHANGED << authVars, mockUsers, storage, cache, cachedAt, nextId, now, last, user, state, deleted, ioFailed >>

BeginAddTask(u, listId, text) ==
  /\ SchemaAddTask(text) = <<>>
  /\ BeginCall(Reading("addTask", u, listId, text, <<>>))

BeginCreateList(u, title, initialTasks) ==
  /\ SchemaCreateList(title, initialTasks) = <<>>
  /\ BeginCall(Reading("createList", u, MissingId, title, initialTasks))

Complete(p, op) ==
  /\ p.phase = "reading"
  /\ p.op = op
  /\ \E o \in {Continue(p, storage, cache, nextId, now)} :
        /\ storage' = SetItemOf(o, storage)
        /\ cache' = o.cache
        /\ cachedAt' = Stamped(cachedAt, cache, o.cache, minute)
        /\ nextId' = nextId + o.used
        /\ now' = now + 1
        /\ last' = [Call(op, p.userId, p.listId, MissingId, EmptyFilter, o) EXCEPT !.effect = TRUE]
        /\ pending' = (pending \ {p}) \cup {Returned(p, o, SetItemOf(o, storage))}
  /\ UNCHANGED << authVars, mockUsers, user, state, deleted, ioFailed >>

CompleteAddTask(p) == Complete(p, "addTask")

CompleteCreateList(p) == Complete(p, "createList")

NextConc ==
  \/ \E u \in Callers, listId \in ListIdInputs, text \in TextInputs :
       BeginAddTask(u, listId, text)
  \/ \E u \in Callers, title \in TitleInputs, initialTasks \in InitialTasksInputs :
       BeginCreateList(u, title, initialTasks)
  \/ \E p \in pending : CompleteAddTask(p)
  \/ \E p \in pending : CompleteCreateList(p)

SpecConc == Init /\ [][NextConc]_vars

\* the ids of the lists and of the tasks of a collection
IdsIn(lists) ==
  {lists[i].id : i \in 1..Len(lists)}
    \cup UNION {{lists[i].tasks[j].id : j \in 1..Len(lists[i].tasks)} : i \in 1..Len(lists)}

\* the list or task the call added is in the collection
HasChange(lists, p) == p.change \in IdsIn(lists)

\* both calls read before either wrote, both wrote the collection of the
\* same user, and b wrote last
OverlappedWriters(a, b) ==
  /\ a.key # NoKey
  /\ a.key = b.key
  /\ b.began < a.ended
  /\ a.ended < b.ended

\* no call has written the collection of the key since b did
LastWriter(b) == \A c \in Done : c.key = b.key => c.ended <= b.ended

\* C9: when two mutating calls on one owner's collection overlap so that both
\* read it before either writes it, both return success, and the collection
\* the later writer leaves has its own change and not the earlier writer's:
\* that update is lost, and it stays lost while nobody writes the collection
C9_OverlappingWritersLoseAnUpdate ==
  \A a, b \in Done :
    OverlappedWriters(a, b) =>
      /\ a.success /\ b.success
      /\ HasChange(a.after, a)
      /\ HasChange(b.after, b)
      /\ ~HasChange(b.after, a)
      /\ LastWriter(b) => storage[b.key].lists = b.after

\* a collaborator's addTask and the owner's createList have overlapped, the
\* task was stored and is gone
C9_Witness ==
  \E a, b \in Done :
    /\ OverlappedWriters(a, b)
    /\ a.op = "addTask" /\ a.userId # a.key
    /\ b.op = "createList"
    /\ HasChange(a.after, a)
    /\ ~HasChange(storage[a.key].lists, a)

(***************************************************************************)
(* A session in progress: user 1 is signed in and the provider shows the   *)
(* lists it loaded from a collection that earlier calls have stored.       *)
(***************************************************************************)
\* a stored list whose tasks have all been completed at time t
CompletedList(userId, id, t) ==
  [id |-> id, title |-> TitleZakupy, ownerId |-> userId, sharedWith |-> <<>>,
   tasks |-> << [SampleTask(id + 1, TextMleko, TRUE) EXCEPT !.completedAt = t],
                [SampleTask(id + 2, TextChleb, TRUE) EXCEPT !.completedAt = t] >>,
   createdAt |-> t, updatedAt |-> t]

\* what user 1 has stored: the sample lists, or a list of completed tasks
ShownInputs ==
  { [u \in UserIds |-> IF u = 1 THEN Stored(SampleLists(1, FirstId, 1)) ELSE NothingStored],
    [u \in UserIds |-> IF u = 1 THEN Stored(<< CompletedList(1, FirstId, 1) >>)
                       ELSE NothingStored] }

\* the state after user 1 has signed in and the effect has loaded the lists
InitShown ==
  /\ mockUsers = MOCK_USERS
  /\ storage \in ShownInputs
  /\ \E r \in {userEffect(initialListState, 1, storage, [key \in CacheKeys |-> NoEntry],
                          FirstId + SampleIds, StartTime, TRUE, TRUE)} :
        /\ cache = r.o.cache
        /\ state = r.state
        /\ last = [Call("loadUserLists", 1, MissingId, MissingId, InitialFilter, r.o)
                     EXCEPT !.effect = TRUE]
  /\ nextId = FirstId + SampleIds
  /\ now = StartTime
  /\ user = 1
  /\ deleted = {}
  /\ ioFailed = FALSE
  /\ pending = {}
  /\ InitAuth
  /\ cachedAt = [key \in CacheKeys |-> 0]

NextShown ==
  \/ \E listId \in CtxListIdInputs : CtxSetSelectedList(listId)
  \/ \E listId \in CtxListIdInputs, ok \in BOOLEAN : CtxDeleteList(listId, ok)
  \/ \E listId \in CtxListIdInputs, text \in TextInputs, ok \in BOOLEAN :
       CtxAddTask(listId, text, ok)
  \/ \E listId \in CtxListIdInputs, updates \in UpdateTaskInputs, ok \in BOOLEAN :
       \E taskId \in TaskIdInputs(listId) : CtxUpdateTask(listId, taskId, updates, ok)
  \/ \E listId \in CtxListIdInputs, ok \in BOOLEAN :
       \E taskId \in TaskIdInputs(listId) : CtxDeleteTask(listId, taskId, ok)
  \/ \E listId \in CtxListIdInputs, ok \in BOOLEAN :
       \E taskId \in TaskIdInputs(listId) : CtxToggleTask(listId, taskId, ok)

SpecShown == InitShown /\ [][NextShown]_vars

\* the lists a call returned and the lists the reducer holds
ListsWithStatistics ==
  {last.data[i] : i \in 1..Len(last.data)} \cup {state.lists[i] : i \in 1..Len(state.lists)}

\* 0 <= p <= 100
IsPercent(p) == 0 <= p.n /\ p.n <= 100 * p.d

\* C11: when no storage access has failed, of every list a call returned and
\* of every list the reducer holds, completionPercentage is 0 when totalTasks
\* is 0, equals 100 * completedTasks / totalTasks otherwise, and lies between
\* 0 and 100.
C11_PercentageFromCounts ==
  ~ioFailed => \A l \in ListsWithStatistics :
    /\ l.statistics.totalTasks = 0 => l.statistics.completionPercentage = ZeroPercent
    /\ l.statistics.totalTasks > 0 =>
         l.statistics.completionPercentage =
           Percentage(l.statistics.completedTasks, l.statistics.totalTasks)
    /\ IsPercent(l.statistics.completionPercentage)

\* C12: when no storage access has failed, the statistics of every list the
\* reducer holds are the counts of the tasks it holds for the list: totalTasks
\* the number of tasks, completedTasks the number of completed tasks,
\* pendingTasks the number of the others, and completionPercentage what
\* calculateStatistics gives for them.
C12_ReducerStatisticsAreFresh ==
  ~ioFailed => \A i \in 1..Len(state.lists) :
    LET l == state.lists[i]
        fresh == calculateStatistics(l)
    IN /\ l.statistics.totalTasks = fresh.totalTasks
       /\ l.statistics.completedTasks = fresh.completedTasks
       /\ l.statistics.pendingTasks = fresh.pendingTasks
       /\ l.statistics.completionPercentage = fresh.completionPercentage

\* the tasks stored with the id in the lists with the id
StoredTasks(st, listId, taskId) ==
  UNION {{l.tasks[i] : i \in {j \in 1..Len(l.tasks) : l.tasks[j].id = taskId}} :
           l \in {m \in StoredListsOf(st) : m.id = listId}}

\* a toggleTask has succeeded and no storage access has failed so far
ToggledNow ==
  /\ last'.op = "toggleTask"
  /\ last'.success
  /\ ~ioFailed'

\* the call before it was a successful toggleTask of the same task
ToggledTwice ==
  /\ ToggledNow
  /\ last.op = "toggleTask"
  /\ last.success
  /\ last.listId = last'.listId
  /\ last.taskId = last'.taskId

\* a successful toggleTask returns the stored task with `completed` flipped,
\* and that is the task stored after it
ToggleFlips ==
  ToggledNow =>
    /\ \A task \in StoredTasks(storage, last'.listId, last'.taskId) :
         last'.task[1].completed = ~task.completed
    /\ StoredTasks(storage', last'.listId, last'.taskId) = {last'.task[1]}

CreatedList(userId, n, i, t) ==
  [id |-> FirstId + (n - i), title |-> TitleZakupy, ownerId |-> userId, sharedWith |-> <<>>,
   tasks |-> <<>>, createdAt |-> t, updatedAt |-> 0]

ManyLists(userId, n, t) == [i \in 1..n |-> CreatedList(userId, n, i, t)]

InitLimit ==
  /\ mockUsers = MOCK_USERS
  /\ \E n \in {MAX_LISTS_PER_USER - 1, MAX_LISTS_PER_USER} :
       storage = [u \in UserIds |-> IF u = 1 THEN Stored(ManyLists(1, n, 1)) ELSE NothingStored]
  /\ cache = [key \in CacheKeys |-> NoEntry]
  /\ nextId = FirstId + MAX_LISTS_PER_USER
  /\ now = StartTime
  /\ last = NoCall
  /\ user = NoUser
  /\ state = initialListState
  /\ deleted = {}
  /\ ioFailed = FALSE
  /\ pending = {}
  /\ InitAuth
  /\ cachedAt = [key \in CacheKeys |-> 0]

\* the ids a caller passes to deleteList here: of the newest and of the
\* oldest list, or one no list has
LimitListIdInputs ==
  {storage[1].lists[i].id : i \in {j \in {1, Len(storage[1].lists)} : j >= 1}} \cup {MissingId}

NextLimit ==
  \/ \E u \in Callers, f \in LoadFilters, readOk \in BOOLEAN, writeOk \in BOOLEAN :
       LoadUserLists(u, f, readOk, writeOk)
  \/ \E u \in Callers, title \in TitleInputs, initialTasks \in InitialTasksInputs,
        ok \in BOOLEAN :
       CreateList(u, title, initialTasks, ok)
  \/ \E u \in Callers, listId \in LimitListIdInputs, ok \in BOOLEAN : DeleteList(u, listId, ok)

SpecLimit == InitLimit /\ [][NextLimit]_vars

C15_TaskTextLength ==
  \A l \in StoredListsOf(storage) :
    \A i \in 1..Len(l.tasks) :
      1 <= Len(l.tasks[i].text) /\ Len(l.tasks[i].text) <= MAX_TASK_TEXT_LENGTH

(***************************************************************************)
(* The authentication service (services/authService.ts) with the           *)
(* validators of the login and registration forms (utils/validation.ts)    *)
(* and the session utilities (utils/storage.ts).                           *)
(***************************************************************************)
MIN_PASSWORD_LENGTH == 6
MAX_PASSWORD_LENGTH == 50
MIN_NAME_LENGTH == 2
MAX_NAME_LENGTH == 50

\* AuthService.maxAttempts
maxAttempts == 5
\* AuthService.lockoutDuration, 15 * 60 * 1000 ms, in minutes
lockoutDuration == 15
\* recordLoginAttempt keeps attempts.slice(-10)
KeptAttempts == 10
\* 24 * 60 * 60 * 1000 ms, in minutes
SessionLifetime == 24 * 60

PASSWORD_TOO_SHORT == "Haslo musi miec co najmniej 6 znakow"
PASSWORD_TOO_LONG == "Haslo moze miec maksymalnie 50 znakow"
PASSWORDS_NOT_MATCH == "Hasla nie sa identyczne"
NAME_TOO_SHORT == "Imie musi miec co najmniej 2 znaki"
NAME_TOO_LONG == "Imie moze miec maksymalnie 50 znakow"
USER_EXISTS == "Uzytkownik z tym emailem juz istnieje"
INVALID_CREDENTIALS == "Nieprawidlowy email lub haslo"
LOCKED_OUT == "Konto zostalo zablokowane na 15 minut z powodu zbyt wielu nieudanych prob logowania."
INVALID_PROFILE == "Nieprawidlowe dane profilu"
NOTHING_TO_UPDATE == "Brak danych do aktualizacji"

isValidPassword(password) ==
  Len(password) >= MIN_PASSWORD_LENGTH /\ Len(password) <= MAX_PASSWORD_LENGTH

isValidName(name) ==
  Len(Trim(name)) >= MIN_NAME_LENGTH /\ Len(Trim(name)) <= MAX_NAME_LENGTH

\* validators.password that accepts a password one character too short
ValidatePasswordLenient(password) ==
  IF password = Empty THEN REQUIRED_FIELD
  ELSE IF ~isValidPassword(password) /\ Len(password) < MIN_PASSWORD_LENGTH - 1 THEN PASSWORD_TOO_SHORT
  ELSE IF ~isValidPassword(password) /\ Len(password) > MAX_PASSWORD_LENGTH THEN PASSWORD_TOO_LONG
  ELSE NoError

\* validators.password
ValidatePassword(password) ==
  IF password = Empty THEN REQUIRED_FIELD
  ELSE IF ~isValidPassword(password) /\ Len(password) < MIN_PASSWORD_LENGTH THEN PASSWORD_TOO_SHORT
  ELSE IF ~isValidPassword(password) /\ Len(password) > MAX_PASSWORD_LENGTH THEN PASSWORD_TOO_LONG
  ELSE NoError

\* validators.confirmPassword
ValidateConfirmPassword(password, confirmPassword) ==
  IF confirmPassword = Empty THEN REQUIRED_FIELD
  ELSE IF password # confirmPassword THEN PASSWORDS_NOT_MATCH
  ELSE NoError

\* validators.name
ValidateName(name) ==
  IF Trim(name) = Empty THEN REQUIRED_FIELD
  ELSE IF ~isValidName(name) /\ Len(Trim(name)) < MIN_NAME_LENGTH THEN NAME_TOO_SHORT
  ELSE IF ~isValidName(name) /\ Len(Trim(name)) > MAX_NAME_LENGTH THEN NAME_TOO_LONG
  ELSE NoError

\* the messages of an errorList, in the order the fields are validated
Messages(found) == SelectSeq(found, LAMBDA m : m # NoError)

\* validationSchemas.login: the ValidationResult (errors, keyed by field, has
\* the same content as errorList)
validationSchemasLogin(data) ==
  LET emailError == ValidateEmail(data.email)
      passwordError == ValidatePassword(data.password)
      errorList ==
        (IF emailError # NoError THEN << [field |-> "email", message |-> emailError] >> ELSE << >>)
        \o (IF passwordError # NoError THEN << [field |-> "password", message |-> passwordError] >>
            ELSE << >>)
  IN [isValid |-> Len(errorList) = 0, errorList |-> errorList]

\* the messages of validationSchemas.login's errorList
SchemaLogin(email, password) ==
  LET errorList == validationSchemasLogin([email |-> email, password |-> password]).errorList
  IN [i \in 1..Len(errorList) |-> errorList[i].message]

\* validationSchemas.register
SchemaRegister(name, email, password, confirmPassword) ==
  Messages(<< ValidateName(name), ValidateEmail(email), ValidatePassword(password),
              ValidateConfirmPassword(password, confirmPassword) >>)

\* loginAttempts is a Map: a sequence of entries [key, value] in insertion order
MapHas(map, key) == \E i \in 1..Len(map) : map[i].key = key

MapGet(map, key, default) ==
  IF MapHas(map, key) THEN map[CHOOSE i \in 1..Len(map) : map[i].key = key].value
  ELSE default

MapSet(map, key, value) ==
  IF MapHas(map, key)
  THEN [i \in 1..Len(map) |-> IF map[i].key = key THEN [key |-> key, value |-> value] ELSE map[i]]
  ELSE Append(map, [key |-> key, value |-> value])

\* Array.prototype.slice(-n)
LastOf(seq, n) == IF Len(seq) <= n THEN seq ELSE SubSeq(seq, Len(seq) - n + 1, Len(seq))

\* the token is its payload; `payload` says that the token has a second part
\* that parses
generateToken(userId, t) ==
  [payload |-> TRUE, sub |-> userId, iat |-> t, exp |-> t + SessionLifetime]

\* a stored token that is no token of generateToken
MalformedToken == [payload |-> FALSE, sub |-> NoUser, iat |-> 0, exp |-> 0]

\* validateToken, but the expiry is not compared with the clock
validateTokenNoExpiry(token, t) ==
  IF ~token.payload THEN [valid |-> FALSE, expired |-> FALSE, userId |-> NoUser]
  ELSE [valid |-> TRUE, expired |-> FALSE, userId |-> token.sub]

validateToken(token, t) ==
  IF ~token.payload THEN [valid |-> FALSE, expired |-> FALSE, userId |-> NoUser]
  ELSE IF token.exp < t THEN [valid |-> FALSE, expired |-> TRUE, userId |-> NoUser]
  ELSE [valid |-> TRUE, expired |-> FALSE, userId |-> token.sub]

isUserLockedOut(la, email, t) ==
  LET attempts == MapGet(la, email, << >>)
      recentFailedAttempts ==
        SelectSeq(attempts, LAMBDA attempt : ~attempt.success /\ t - attempt.timestamp < lockoutDuration)
  IN Len(recentFailedAttempts) >= maxAttempts

recordLoginAttempt(la, email, t, success) ==
  LET attempts == Append(MapGet(la, email, << >>),
                         [email |-> email, timestamp |-> t, success |-> success])
  IN MapSet(la, email, LastOf(attempts, KeptAttempts))

\* storageUtils.saveUserSession: two setItem calls, each of which can fail
saveUserSession(se, token, userData, okToken, okData) ==
  [session |-> [token |-> IF okToken THEN << token >> ELSE se.token,
                userData |-> IF okData THEN << userData >> ELSE se.userData],
   success |-> okToken /\ okData]

\* storageUtils.getUserSession
getUserSession(se) == se.token # << >> /\ se.userData # << >>

\* what a call of the authentication service leaves and returns
AuthOutcome(mu, la, se, used, res) ==
  [mockUsers |-> mu, loginAttempts |-> la, session |-> se, used |-> used, res |-> res]

signIn(mu, la, se, t, email, password, okToken, okData) ==
  LET errorList == SchemaLogin(email, password)
      Matches(u) == u.email = email /\ u.password = password
      found == FindIndex(mu, Matches)
      userFound == mu[found]
      token == generateToken(userFound.id, t)
      sessionData == [token |-> token, user |-> userFound, expiresAt |-> t + SessionLifetime,
                      lastActivity |-> t]
      saveResult == saveUserSession(se, token, sessionData, okToken, okData)
  IN IF errorList # << >>
     THEN AuthOutcome(mu, la, se, 0, Failure(FirstError(errorList, INVALID_CREDENTIALS)))
     ELSE IF isUserLockedOut(la, email, t)
     THEN AuthOutcome(mu, la, se, 0, Failure(LOCKED_OUT))
     ELSE IF found = 0
     THEN AuthOutcome(mu, recordLoginAttempt(la, email, t, FALSE), se, 0, Failure(INVALID_CREDENTIALS))
     ELSE IF ~saveResult.success
     THEN AuthOutcome(mu, la, saveResult.session, 0, Failure(STORAGE_ERROR))
     ELSE AuthOutcome(mu, recordLoginAttempt(la, email, t, TRUE), saveResult.session, 0,
                      Response(TRUE, NoError, << [user |-> userFound, token |-> token] >>, << >>,
                               "Zalogowano pomyslnie"))

signUp(mu, la, se, id, t, name, email, password, okToken, okData) ==
  LET errorList == SchemaRegister(name, email, password, password)
      HasEmail(u) == u.email = email
      existingUser == FindIndex(mu, HasEmail)
      newUser == [id |-> id, email |-> Trim(ToLowerCase(email)), password |-> password,
                  name |-> Trim(name), createdAt |-> t]
      token == generateToken(id, t)
      sessionData == [token |-> token, user |-> newUser, expiresAt |-> t + SessionLifetime,
                      lastActivity |-> t]
      saveResult == saveUserSession(se, token, sessionData, okToken, okData)
  IN IF errorList # << >>
     THEN AuthOutcome(mu, la, se, 0, Failure(FirstError(errorList, UNKNOWN_ERROR)))
     ELSE IF existingUser # 0
     THEN AuthOutcome(mu, la, se, 0, Failure(USER_EXISTS))
     ELSE IF ~saveResult.success
     THEN AuthOutcome(Append(mu, newUser), la, saveResult.session, 1, Failure(STORAGE_ERROR))
     ELSE AuthOutcome(Append(mu, newUser), la, saveResult.session, 1,
                      Response(TRUE, NoError, << [user |-> newUser, token |-> token] >>, << >>,
                               "Konto zostalo utworzone pomyslnie"))

\* the placeholders updateProfile validates a name with
TempEmail == << "t", "e", "m", "p", "@", "t", "e", "m", "p", ".", "c", "o", "m" >>
TempPassword == << "t", "e", "m", "p", "1", "2", "3" >>

\* Partial<Pick<User, 'name' | 'email'>>
Updates(hasName, name, hasEmail, email) ==
  [hasName |-> hasName, name |-> name, hasEmail |-> hasEmail, email |-> email]

\* updateProfile reassigns its local variable mockedUser and leaves the
\* element of MOCK_USERS as it was
updateProfile(mu, la, se, t, userId, updates, okData) ==
  LET nameGiven == updates.hasName /\ updates.name # Empty
      emailGiven == updates.hasEmail /\ updates.email # Empty
      HasId(u) == u.id = userId
      userIndex == FindIndex(mu, HasId)
      mockedUser == mu[userIndex]
      updatedUser == [mockedUser EXCEPT
                        !.name = IF updates.hasName THEN updates.name ELSE @,
                        !.email = IF updates.hasEmail THEN updates.email ELSE @]
      sessionData == se.userData[1]
      updatedSessionData == [sessionData EXCEPT !.user = updatedUser, !.lastActivity = t]
      updatedSession ==
        IF getUserSession(se) /\ okData
        THEN [se EXCEPT !.userData = << updatedSessionData >>]
        ELSE se
  IN IF nameGiven /\ SchemaRegister(updates.name, TempEmail, TempPassword, TempPassword) # << >>
     THEN AuthOutcome(mu, la, se, 0, Failure(INVALID_PROFILE))
     ELSE IF userIndex = 0
     THEN AuthOutcome(mu, la, se, 0, Failure(USER_NOT_FOUND))
     ELSE IF ~emailGiven /\ ~nameGiven
     THEN AuthOutcome(mu, la, se, 0, Failure(NOTHING_TO_UPDATE))
     ELSE AuthOutcome(mu, la, updatedSession, 0,
                      Response(TRUE, NoError, << updatedUser >>, << >>,
                               "Profil zostal zaktualizowany"))

(***************************************************************************)
(* The calls of the authentication service.                                *)
(***************************************************************************)
MaxSignIns == 12
MaxAuthSignIns == 2
MaxSignUps == 1
MaxMinute == 15

WrongPassword == << "p", "a", "s", "s", "w", "o", "r", "d" >>
ShortPassword == << "a", "b", "c" >>
PasswordInputs == { Password123, WrongPassword, ShortPassword }

\* 'USER@example.com'
UpperUserEmail == << "U", "S", "E", "R" >> \o ExampleCom
NameEwa == << "E", "w", "a" >>
ShortName == << "E" >>
NameInputs == { NameEwa, ShortName }
SignUpEmailInputs == { UserEmail, UpperUserEmail, GhostEmail, BadEmail }

UpdatesInputs ==
  { Updates(FALSE, Empty, TRUE, GhostEmail), Updates(TRUE, NameEwa, TRUE, GhostEmail),
    Updates(TRUE, NameEwa, FALSE, Empty), Updates(TRUE, ShortName, FALSE, Empty),
    Updates(FALSE, Empty, FALSE, Empty) }

\* the record of a call of the authentication service
AuthCall(op, userId, email, name, res) ==
  [NoCall EXCEPT !.op = op, !.userId = userId, !.email = email, !.name = name,
                 !.success = res.success, !.error = res.error, !.data = res.data,
                 !.message = res.message]

\* what a call of the authentication service does before it returns
AuthEffect(r, call, failed) ==
  /\ mockUsers' = r.mockUsers
  /\ loginAttempts' = r.loginAttempts
  /\ session' = r.session
  /\ nextId' = nextId + r.used
  /\ ioFailed' = (ioFailed \/ failed)
  /\ last' = [call EXCEPT !.effect = \/ call.effect
                                     \/ r.mockUsers # mockUsers
                                     \/ r.loginAttempts # loginAttempts
                                     \/ r.session # session]
  /\ UNCHANGED << storage, cache, cachedAt, now, user, state, deleted, pending, minute >>

\* a call of the authentication service returns to a caller other than the
\* AuthProvider
AuthReturn(r, call, failed) ==
  /\ AuthEffect(r, call, failed)
  /\ UNCHANGED << authState, authPending >>

\* a failing session write is drawn once, and only for a call that writes
SignIn(max, email, password, okToken, okData) ==
  /\ Settled
  /\ Len(attempted) < max
  /\ (okToken /\ okData) \/ ~ioFailed
  /\ \E r \in {signIn(mockUsers, loginAttempts, session, minute, email, password, okToken, okData)} :
       /\ (okToken /\ okData) \/ r.res.error = STORAGE_ERROR
       /\ AuthReturn(r, AuthCall("signIn", NoUser, email, Empty, r.res), ~(okToken /\ okData))
       /\ attempted' =
            IF SchemaLogin(email, password) = << >> /\ ~isUserLockedOut(loginAttempts, email, minute)
            THEN Append(attempted, [email |-> email, timestamp |-> minute,
                                    failed |-> r.res.error = INVALID_CREDENTIALS])
            ELSE attempted

SignUp(name, email, password, okToken, okData) ==
  /\ Settled
  /\ Len(mockUsers) < Len(MOCK_USERS) + MaxSignUps
  /\ (okToken /\ okData) \/ ~ioFailed
  /\ \E r \in {signUp(mockUsers, loginAttempts, session, nextId, minute, name, email, password,
                      okToken, okData)} :
       /\ (okToken /\ okData) \/ r.res.error = STORAGE_ERROR
       /\ AuthReturn(r, AuthCall("signUp", NoUser, email, name, r.res), ~(okToken /\ okData))
       /\ UNCHANGED attempted

UpdateProfile(userId, updates, okData) ==
  /\ Settled
  /\ okData \/ ~ioFailed
  /\ \E r \in {updateProfile(mockUsers, loginAttempts, session, minute, userId, updates, okData)} :
       /\ okData \/ (r.res.success /\ getUserSession(session))
       /\ AuthReturn(r, AuthCall("updateProfile", userId, updates.email, updates.name, r.res), ~okData)
       /\ UNCHANGED attempted

\* time passes: almost a lockout window, or a whole one
TickInputs == { lockoutDuration - 1, lockoutDuration }

Tick(d) ==
  /\ Settled
  /\ minute + d <= MaxMinute
  /\ minute' = minute + d
  /\ UNCHANGED << mockUsers, storage, cache, cachedAt, nextId, now, last, user, state, deleted, ioFailed,
                  pending, loginAttempts, session, attempted, authState, authPending >>

\* a fresh install
InitFresh == Init /\ storage = [u \in UserIds |-> NothingStored]

\* attempts to sign in as user@example.com while storage works
NextLockout ==
  \/ \E password \in PasswordInputs : SignIn(MaxSignIns, UserEmail, password, TRUE, TRUE)
  \/ \E d \in TickInputs : Tick(d)

SpecLockout == InitFresh /\ [][NextLockout]_vars

\* accounts are created, used and edited
NextAuth ==
  \/ \E email \in { UserEmail, GhostEmail }, password \in PasswordInputs, okToken, okData \in BOOLEAN :
       SignIn(MaxAuthSignIns, email, password, okToken, okData)
  \/ \E name \in NameInputs, email \in SignUpEmailInputs, okToken, okData \in BOOLEAN :
       SignUp(name, email, Password123, okToken, okData)
  \/ \E userId \in { 1, MissingId }, updates \in UpdatesInputs, okData \in BOOLEAN :
       UpdateProfile(userId, updates, okData)

SpecAuth == InitFresh /\ [][NextAuth]_vars

\* the failed attempts for the email within the last lockoutDuration minutes
RecentFailures(email) ==
  Cardinality({i \in 1..Len(attempted) :
                 /\ attempted[i].email = email
                 /\ attempted[i].failed
                 /\ minute - attempted[i].timestamp < lockoutDuration})

\* C16: a signIn for an email with 5 failed attempts within the last 15
\* minutes is rejected, whatever password it gives and whatever successful
\* attempts lie between the failures
C16_LockedOutAfterFiveFailures ==
  [][(/\ minute' = minute
      /\ last'.op = "signIn"
      /\ RecentFailures(last'.email) >= maxAttempts) => ~last'.success]_vars

\* C17: no two users of the directory have the same email when letter case
\* is ignored, so a signUp whose email differs from an existing one only in
\* case adds no user
C17_EmailsUniqueIgnoringCase ==
  \A i, j \in 1..Len(mockUsers) :
    i # j => ToLowerCase(mockUsers[i].email) # ToLowerCase(mockUsers[j].email)

\* the directory entry of userId
DirectoryEntry(mu, userId) ==
  mu[CHOOSE i \in 1..Len(mu) : mu[i].id = userId]

\* C18: after a successful updateProfile(userId, {email: e}) the directory
\* entry of userId has email e and the given name, under the same id
C18_ProfileUpdateReachesDirectory ==
  [][(/\ last'.op = "updateProfile"
      /\ last' # last
      /\ last'.success
      /\ last'.email # Empty)
     => /\ \E i \in 1..Len(mockUsers') : mockUsers'[i].id = last'.userId
        /\ DirectoryEntry(mockUsers', last'.userId).email = last'.email
        /\ last'.name # Empty => DirectoryEntry(mockUsers', last'.userId).name = last'.name]_vars

\* the messages of the input validators
InputErrors ==
  {REQUIRED_FIELD, INVALID_EMAIL, LIST_TITLE_REQUIRED, LIST_TITLE_TOO_LONG,
   TASK_TEXT_REQUIRED, TASK_TEXT_TOO_LONG}

\* C19: a call by a user who is neither owner of a stored list nor named in
\* its sharedWith to updateList, addTask, updateTask, deleteTask, toggleTask,
\* deleteList or shareList on that list, with inputs the validators accept
\* and storage readable, fails with a permission error
C19_StrangerGetsPermissionError ==
  [][\A l \in StoredListsOf(storage) :
       (/\ last'.op \in MutatingOps
        /\ last'.listId = l.id
        /\ IsStranger(l, last'.userId)
        /\ ~last'.readFailed
        /\ last'.error \notin InputErrors)
         => (~last'.success /\ last'.error \in PermissionErrors)]_vars

\* the lists of the state other than the one with the id, in their order
ListsWithout(lists, listId) == SelectSeq(lists, LAMBDA list : list.id # listId)

\* C20: a successful deleteList removes the list from state.lists and clears
\* selectedListId when it was the deleted id, leaving it otherwise; a failed
\* deleteList changes nothing of the state but the error
C20_DeleteListUpdatesSelection ==
  [][last'.op = "deleteList" =>
       IF last'.success
       THEN /\ state'.lists = ListsWithout(state.lists, last'.listId)
            /\ state'.selectedListId =
                 IF state.selectedListId = last'.listId THEN MissingId ELSE state.selectedListId
       ELSE /\ state' = [state EXCEPT !.error = state'.error]
            /\ user # NoUser => state'.error = last'.error]_vars

\* the first sample list has been deleted while the second one was selected:
\* the second list is the only one shown and is still selected
C20_Witness ==
  /\ last.op = "deleteList"
  /\ last.success
  /\ last.listId = FirstId
  /\ state.selectedListId = FirstId + 5
  /\ Len(state.lists) = 1
  /\ state.lists[1].id = FirstId + 5

C21_NothingSeeded ==
  /\ last.op = "exportLists"
  /\ last.success
  /\ ~storage[last.userId].stored

(***************************************************************************)
(* The login form validation as a function of its input.                   *)
(***************************************************************************)
MaxEmailLen == 5

\* the characters that decide the outcome of the email pattern
EmailAlphabet == { "a", "@", ".", " " }

RECURSIVE StringsUpTo(_)
StringsUpTo(n) ==
  IF n = 0 THEN { << >> }
  ELSE LET shorter == StringsUpTo(n - 1)
       IN shorter \cup { Append(s, c) : s \in shorter, c \in EmailAlphabet }

\* short emails of every shape, the emails of the tests, and well-formed
\* ones of 100 and 101 characters
LoginEmailInputs ==
  StringsUpTo(MaxEmailLen)
    \cup { TestEmail, BadEmail,
           Repeat(MAX_EMAIL_LENGTH - 4) \o << "@", "a", ".", "a" >>,
           Repeat(MAX_EMAIL_LENGTH - 3) \o << "@", "a", ".", "a" >> }

\* passwords of length 0, 1, one below and at the minimum, 11, at and one
\* above the maximum
LoginPasswordInputs ==
  { Empty, Repeat(1), Repeat(MIN_PASSWORD_LENGTH - 1), Repeat(MIN_PASSWORD_LENGTH), Password123,
    Repeat(MAX_PASSWORD_LENGTH), Repeat(MAX_PASSWORD_LENGTH + 1) }

\* the form is filled in
InitValidation ==
  /\ mockUsers = MOCK_USERS
  /\ storage = [u \in UserIds |-> NothingStored]
  /\ cache = [key \in CacheKeys |-> NoEntry]
  /\ nextId = FirstId + SampleIds
  /\ now = StartTime
  /\ \E email \in LoginEmailInputs, password \in LoginPasswordInputs :
       last = [NoCall EXCEPT !.email = email, !.password = password]
  /\ user = NoUser
  /\ state = initialListState
  /\ deleted = {}
  /\ ioFailed = FALSE
  /\ pending = {}
  /\ InitAuth
  /\ cachedAt = [key \in CacheKeys |-> 0]

\* validationSchemas.login is applied to the form
ValidateLogin ==
  /\ last.op = "none"
  /\ \E result \in {validationSchemasLogin([email |-> last.email, password |-> last.password])} :
       last' = [last EXCEPT !.op = "validationSchemas.login", !.success = result.isValid,
                            !.data = result.errorList]
  /\ UNCHANGED << authVars, mockUsers, storage, cache, cachedAt, nextId, now, user, state, deleted,
                  ioFailed, pending >>

NextValidation == ValidateLogin

SpecValidation == InitValidation /\ [][NextValidation]_vars

\* the fields of an errorList, in its order
Fields(errorList) == [i \in 1..Len(errorList) |-> errorList[i].field]

\* C22: validationSchemas.login answers isValid with an empty errorList
\* exactly when the email is non-empty and well-formed and the password is
\* non-empty with a length in the allowed range, and otherwise lists one
\* entry per invalid field; validators.email answers the required-field
\* error for an empty (or blank) email and the invalid-email error for a
\* malformed one; validators.password answers the required-field error for
\* an empty password and the too-short error for one below the minimum
C22_LoginValidation ==
  last.op = "validationSchemas.login" =>
    LET emailOk == last.email # Empty /\ isValidEmail(last.email)
        passwordOk == /\ last.password # Empty
                      /\ Len(last.password) >= MIN_PASSWORD_LENGTH
                      /\ Len(last.password) <= MAX_PASSWORD_LENGTH
    IN /\ last.success <=> (emailOk /\ passwordOk)
       /\ last.success <=> last.data = << >>
       /\ Fields(last.data) = (IF emailOk THEN << >> ELSE << "email" >>)
                                \o (IF passwordOk THEN << >> ELSE << "password" >>)
       /\ Trim(last.email) = Empty => ValidateEmail(last.email) = REQUIRED_FIELD
       /\ (Trim(last.email) # Empty /\ ~isValidEmail(last.email))
            => ValidateEmail(last.email) = INVALID_EMAIL
       /\ last.password = Empty => ValidatePassword(last.password) = REQUIRED_FIELD
       /\ (last.password # Empty /\ Len(last.password) < MIN_PASSWORD_LENGTH)
            => ValidatePassword(last.password) = PASSWORD_TOO_SHORT

\* a malformed email and a short password have been validated: two entries
C22_Witness ==
  /\ last.op = "validationSchemas.login"
  /\ last.email = BadEmail
  /\ last.password = Repeat(1)
  /\ ~last.success
  /\ Len(last.data) = 2

\* the calls that edit a list
EditOps == {"updateList", "addTask", "updateTask", "deleteTask", "toggleTask"}

\* every list stored under a user's key is owned by that user, and no list
\* id is stored under two keys
StoredWithOwner(st) ==
  /\ \A u \in UserIds : \A i \in 1..Len(st[u].lists) : st[u].lists[i].ownerId = u
  /\ \A u, v \in UserIds :
       u # v => \A i \in 1..Len(st[u].lists), j \in 1..Len(st[v].lists) :
                  st[u].lists[i].id # st[v].lists[j].id

\* the ids of a collection, in its order
IdsOf(lists) == [i \in 1..Len(lists) |-> lists[i].id]

\* C23: every stored list lies under its owner's key and under no other key;
\* a collaborator's successful edit changes the list in the owner's
\* collection, at its position, and leaves the collaborator's own
\* collection as it was
C23_ListsLiveWithTheirOwner ==
  [][/\ StoredWithOwner(storage)
     /\ StoredWithOwner(storage')
     /\ \A u \in UserIds :
          (/\ last'.op \in EditOps
           /\ last'.success
           /\ last'.userId # u
           /\ \E i \in 1..Len(storage[u].lists) : storage[u].lists[i].id = last'.listId)
            => /\ storage'[last'.userId] = storage[last'.userId]
               /\ IdsOf(storage'[u].lists) = IdsOf(storage[u].lists)
               /\ \A i \in 1..Len(storage[u].lists) :
                    storage[u].lists[i].id # last'.listId
                      => storage'[u].lists[i] = storage[u].lists[i]]_vars

\* anna (user 2) has added a task to the shared list of user 1: the list in
\* user 1's collection has the task, and the collection of user 2 is empty
C23_Witness ==
  /\ last.op = "addTask"
  /\ last.success
  /\ last.userId = 2
  /\ storage[2].lists = << >>
  /\ \E i \in 1..Len(storage[1].lists) :
       /\ storage[1].lists[i].id = last.listId
       /\ \E k \in 1..Len(storage[1].lists[i].tasks) : storage[1].lists[i].tasks[k] = last.task[1]

\* C24: a loadUserLists call for a user whose collection has been persisted,
\* be it empty, leaves that collection as it is, also when its read fails
C24_StoredCollectionIsNotReseeded ==
  [][(last'.op = "loadUserLists" /\ storage[last'.userId].stored)
       => storage'[last'.userId] = storage[last'.userId]]_vars

(***************************************************************************)
(* The cache of loadUserLists over time.                                   *)
(***************************************************************************)
\* ListService.CACHE_TTL, 5 * 60 * 1000 ms, in minutes
CACHE_TTL == 5

\* time passes: almost the time-to-live of a cache entry, or all of it
CacheTickInputs == { CACHE_TTL - 1, CACHE_TTL }

\* lists are loaded again and again while time passes
NextCache ==
  \/ \E u \in Callers, f \in LoadFilters, readOk \in BOOLEAN, writeOk \in BOOLEAN :
       LoadUserLists(u, f, readOk, writeOk)
  \/ \E d \in CacheTickInputs : Tick(d)

SpecCache == Init /\ [][NextCache]_vars

\* C25: a loadUserLists call whose cache entry was stored CACHE_TTL minutes
\* ago or earlier does not answer from the cache
C25_ExpiredEntryIsNotServed ==
  [][(/\ last'.op = "loadUserLists"
      /\ minute' = minute
      /\ cache[<< last'.userId, last'.filter >>].hit
      /\ minute - cachedAt[<< last'.userId, last'.filter >>] >= CACHE_TTL)
       => last'.message # "Lists loaded from cache"]_vars

(***************************************************************************)
(* Sessions: AuthService.signOut and restoreSession, the authReducer and   *)
(* the AuthProvider.                                                       *)
(***************************************************************************)

NO_SESSION == "No session found"
SESSION_EXPIRED == "Session expired"
INVALID_SESSION == "Invalid session"
CLEAR_FAILED == "Failed to clear user session"
SIGN_IN_FAILED == "Blad logowania"
SIGN_UP_FAILED == "Blad rejestracji"

\* storageUtils.clearUserSession: multiRemove of both keys, which can fail
clearUserSession(se, ok) == [session |-> IF ok THEN NoSession ELSE se, success |-> ok]

signOut(mu, la, se, ok) ==
  LET result == clearUserSession(se, ok)
  IN AuthOutcome(mu, la, result.session, 0,
                 Response(result.success, IF result.success THEN NoError ELSE CLEAR_FAILED,
                          << >>, << >>, IF result.success THEN "Wylogowano pomyslnie" ELSE ""))

restoreSession(mu, la, se, t, okRemove, okData) ==
  IF ~getUserSession(se)
  THEN AuthOutcome(mu, la, se, 0, Failure(NO_SESSION))
  ELSE LET token == se.token[1]
           sessionData == se.userData[1]
           tokenValidation == validateToken(token, t)
           cleared == clearUserSession(se, okRemove).session
           updatedSessionData == [sessionData EXCEPT !.lastActivity = t]
       IN IF ~tokenValidation.valid
          THEN AuthOutcome(mu, la, cleared, 0,
                           Failure(IF tokenValidation.expired THEN SESSION_EXPIRED
                                   ELSE INVALID_SESSION))
          ELSE IF sessionData.expiresAt < t
          THEN AuthOutcome(mu, la, cleared, 0, Failure(SESSION_EXPIRED))
          ELSE AuthOutcome(mu, la,
                           [se EXCEPT !.userData = IF okData THEN << updatedSessionData >> ELSE @],
                           0,
                           Response(TRUE, NoError, << [user |-> sessionData.user, token |-> token] >>,
                                    << >>, "Session restored successfully"))

\* authActions
AuthAction(type, token, userData, isLoading, error) ==
  [type |-> type, token |-> token, user |-> userData, isLoading |-> isLoading, error |-> error]

restoreTokenAction(token, userData) == AuthAction("RESTORE_TOKEN", token, userData, FALSE, << >>)
signInAction(token, userData) == AuthAction("SIGN_IN", token, userData, FALSE, << >>)
signOutAction == AuthAction("SIGN_OUT", << >>, << >>, FALSE, << >>)
setLoadingAction(isLoading) == AuthAction("SET_LOADING", << >>, << >>, isLoading, << >>)
setErrorAction(error) == AuthAction("SET_ERROR", << >>, << >>, FALSE, << error >>)
clearErrorAction == AuthAction("CLEAR_ERROR", << >>, << >>, FALSE, << >>)

\* authReducer, but SET_ERROR leaves isLoading alone
authReducerKeepsLoading(s, action) ==
  CASE action.type = "RESTORE_TOKEN" ->
         [s EXCEPT !.userToken = action.token, !.user = action.user, !.isLoading = FALSE,
                   !.error = << >>]
    [] action.type = "SIGN_IN" ->
         [s EXCEPT !.isSignout = FALSE, !.userToken = action.token, !.user = action.user,
                   !.isLoading = FALSE, !.error = << >>]
    [] action.type = "SIGN_OUT" ->
         [s EXCEPT !.isSignout = TRUE, !.userToken = << >>, !.user = << >>,
                   !.isLoading = FALSE, !.error = << >>]
    [] action.type = "SET_LOADING" -> [s EXCEPT !.isLoading = action.isLoading]
    [] action.type = "SET_ERROR" -> [s EXCEPT !.error = action.error]
    [] action.type = "CLEAR_ERROR" -> [s EXCEPT !.error = << >>]
    [] OTHER -> s

authReducer(s, action) ==
  CASE action.type = "RESTORE_TOKEN" ->
         [s EXCEPT !.userToken = action.token, !.user = action.user, !.isLoading = FALSE,
                   !.error = << >>]
    [] action.type = "SIGN_IN" ->
         [s EXCEPT !.isSignout = FALSE, !.userToken = action.token, !.user = action.user,
                   !.isLoading = FALSE, !.error = << >>]
    [] action.type = "SIGN_OUT" ->
         [s EXCEPT !.isSignout = TRUE, !.userToken = << >>, !.user = << >>,
                   !.isLoading = FALSE, !.error = << >>]
    [] action.type = "SET_LOADING" -> [s EXCEPT !.isLoading = action.isLoading]
    [] action.type = "SET_ERROR" -> [s EXCEPT !.error = action.error, !.isLoading = FALSE]
    [] action.type = "CLEAR_ERROR" -> [s EXCEPT !.error = << >>]
    [] OTHER -> s

\* the calls of the AuthProvider that the model starts, the one at mount included
MaxAuthCalls == 3

\* a session that an earlier run of the application has left
SessionOf(u, exp, expiresAt) ==
  LET token == [payload |-> TRUE, sub |-> u.id, iat |-> exp - SessionLifetime, exp |-> exp]
  IN [token |-> << token >>,
      userData |-> << [token |-> token, user |-> u, expiresAt |-> expiresAt,
                       lastActivity |-> exp - SessionLifetime] >>]

\* a session that expires while the clock of the model runs
SoonExpiry == lockoutDuration - 1

\* nothing, a session of a minute ago, one about to expire, one whose token
\* has expired, one whose record has expired, and one with a broken token
SessionInputs ==
  { NoSession,
    SessionOf(MOCK_USERS[1], SessionLifetime - 1, SessionLifetime - 1),
    SessionOf(MOCK_USERS[1], SoonExpiry, SoonExpiry),
    SessionOf(MOCK_USERS[1], 0 - 1, SessionLifetime - 1),
    SessionOf(MOCK_USERS[1], SessionLifetime - 1, 0 - 1),
    [SessionOf(MOCK_USERS[1], SessionLifetime - 1, SessionLifetime - 1)
       EXCEPT !.token = << MalformedToken >>] }

\* a call of the AuthProvider; loading is isLoading after the dispatches with
\* which the call begins
ProviderCall(op, email, name, password, loading) ==
  [op |-> op, email |-> email, name |-> name, password |-> password, loading |-> loading,
   done |-> FALSE]

\* the AuthProvider mounts and its effect calls restoreSession
MountCall == ProviderCall("restoreSession", Empty, Empty, Empty, TRUE)

InitSession ==
  /\ mockUsers = MOCK_USERS
  /\ storage = [u \in UserIds |-> NothingStored]
  /\ cache = [key \in CacheKeys |-> NoEntry]
  /\ nextId = FirstId + SampleIds
  /\ now = StartTime
  /\ last = NoCall
  /\ user = NoUser
  /\ state = initialListState
  /\ deleted = {}
  /\ ioFailed = FALSE
  /\ pending = {}
  /\ loginAttempts = << >>
  /\ session \in SessionInputs
  /\ minute = 0
  /\ attempted = << >>
  /\ cachedAt = [key \in CacheKeys |-> 0]
  /\ authState = authReducer(initialAuthState, setLoadingAction(TRUE))
  /\ authPending = << MountCall >>

\* signIn, signUp, signOut and restoreSession of the AuthProvider up to their
\* await
ProviderBegin(op, email, name, password) ==
  /\ Len(authPending) < MaxAuthCalls
  /\ \E s \in { IF op \in { "signIn", "signUp" }
                THEN authReducer(authReducer(authState, setLoadingAction(TRUE)), clearErrorAction)
                ELSE authReducer(authState, setLoadingAction(TRUE)) } :
       /\ authState' = s
       /\ authPending' = Append(authPending, ProviderCall(op, email, name, password, s.isLoading))
  /\ UNCHANGED << mockUsers, storage, cache, cachedAt, nextId, now, last, user, state, deleted,
                  ioFailed, pending, loginAttempts, session, minute, attempted >>

\* what the authentication service does for the call p
ProviderResult(p, okToken, okData, okRemove) ==
  CASE p.op = "signIn" ->
         signIn(mockUsers, loginAttempts, session, minute, p.email, p.password, okToken, okData)
    [] p.op = "signUp" ->
         signUp(mockUsers, loginAttempts, session, nextId, minute, p.name, p.email, p.password,
                okToken, okData)
    [] p.op = "signOut" -> signOut(mockUsers, loginAttempts, session, okRemove)
    [] p.op = "restoreSession" ->
         restoreSession(mockUsers, loginAttempts, session, minute, okRemove, okData)

\* what the AuthProvider dispatches when the call p has returned res
ProviderDispatch(p, res) ==
  CASE p.op = "signOut" -> signOutAction
    [] p.op = "restoreSession" ->
         IF res.success /\ res.data # << >>
         THEN signInAction(<< res.data[1].token >>, << res.data[1].user >>)
         ELSE restoreTokenAction(<< >>, << >>)
    [] OTHER ->
         IF res.success /\ res.data # << >>
         THEN signInAction(<< res.data[1].token >>, << res.data[1].user >>)
         ELSE setErrorAction(IF res.error # NoError THEN res.error
                             ELSE IF p.op = "signIn" THEN SIGN_IN_FAILED ELSE SIGN_UP_FAILED)

\* the rest of the call: the authentication service returns and the AuthProvider
\* dispatches; a failing storage operation is drawn once, and only where the
\* call performs it
ProviderComplete(i, okToken, okData, okRemove) ==
  /\ i \in 1..Len(authPending)
  /\ ~authPending[i].done
  /\ (okToken /\ okData /\ okRemove) \/ ~ioFailed
  /\ \E r \in {ProviderResult(authPending[i], okToken, okData, okRemove)} :
       /\ \/ okToken /\ okData /\ okRemove
          \/ r # ProviderResult(authPending[i], TRUE, TRUE, TRUE)
       /\ AuthEffect(r, [AuthCall(authPending[i].op, NoUser, authPending[i].email,
                                  authPending[i].name, r.res) EXCEPT !.effect = TRUE],
                     ~(okToken /\ okData /\ okRemove))
       /\ authState' = authReducer(authState, ProviderDispatch(authPending[i], r.res))
  /\ authPending' = [authPending EXCEPT ![i].done = TRUE]
  /\ UNCHANGED attempted

\* the application is started again while no call is in flight: what is in
\* memory is lost, what is persisted stays, and the AuthProvider mounts
Restart ==
  /\ Len(authPending) < MaxAuthCalls
  /\ \A i \in 1..Len(authPending) : authPending[i].done
  /\ mockUsers' = MOCK_USERS
  /\ loginAttempts' = << >>
  /\ cache' = [key \in CacheKeys |-> NoEntry]
  /\ cachedAt' = [key \in CacheKeys |-> 0]
  /\ user' = NoUser
  /\ state' = initialListState
  /\ authState' = authReducer(initialAuthState, setLoadingAction(TRUE))
  /\ authPending' = Append(authPending, MountCall)
  /\ last' = [NoCall EXCEPT !.op = "restart", !.effect = TRUE]
  /\ UNCHANGED << storage, nextId, now, deleted, ioFailed, pending, session, minute, attempted >>

NextSession ==
  \/ \E password \in { Password123, WrongPassword } :
       ProviderBegin("signIn", UserEmail, Empty, password)
  \/ \E email \in { UserEmail, GhostEmail } : ProviderBegin("signUp", email, NameEwa, Password123)
  \/ ProviderBegin("signOut", Empty, Empty, Empty)
  \/ ProviderBegin("restoreSession", Empty, Empty, Empty)
  \/ \E i \in 1..MaxAuthCalls, okToken, okData, okRemove \in BOOLEAN :
       ProviderComplete(i, okToken, okData, okRemove)
  \/ Restart
  \/ \E d \in TickInputs : Tick(d)

SpecSession == InitSession /\ [][NextSession]_vars

\* userToken and user are both set
Authenticated(s) == s.userToken # << >> /\ s.user # << >>

\* the call of the AuthProvider that returns in this step
Returning(i) == i \in 1..Len(authPending) /\ ~authPending[i].done /\ authPending'[i].done

\* C26: AuthState becomes authenticated, or authenticated as somebody else,
\* only when a successful signIn, signUp or restoreSession returns that began by
\* setting isLoading; a failed signIn or signUp leaves userToken and user as
\* they were and a failed restoreSession sets none; when signOut returns both
\* are null; and when any of the four returns isLoading is false
C26_AuthStateMachine ==
  [][/\ ( /\ Authenticated(authState')
          /\ << authState'.userToken, authState'.user >> # << authState.userToken, authState.user >> )
        => \E i \in 1..MaxAuthCalls :
             /\ Returning(i)
             /\ authPending[i].op \in { "signIn", "signUp", "restoreSession" }
             /\ authPending[i].loading
             /\ last'.success
             /\ authState'.userToken = << last'.data[1].token >>
             /\ authState'.user = << last'.data[1].user >>
     /\ \A i \in 1..MaxAuthCalls :
          Returning(i) =>
            /\ ~authState'.isLoading
            /\ last'.op = authPending[i].op
            /\ (authPending[i].op = "signOut")
                 => authState'.userToken = << >> /\ authState'.user = << >>
            /\ (authPending[i].op \in { "signIn", "signUp" } /\ ~last'.success)
                 => /\ authState'.userToken = authState.userToken
                    /\ authState'.user = authState.user
            /\ (authPending[i].op = "restoreSession" /\ ~last'.success)
                 => authState'.userToken = << >> /\ authState'.user = << >>
    ]_vars

\* a sign-in with a wrong password has returned and one with the right password
\* has authenticated user@example.com
C26_Witness ==
  /\ Authenticated(authState)
  /\ ~authState.isLoading
  /\ last.op = "signIn"
  /\ last.success
  /\ authState.user[1].email = UserEmail
  /\ \E i \in 1..Len(authPending) :
       authPending[i].op = "signIn" /\ authPending[i].password = WrongPassword /\ authPending[i].done

\* the call of the AuthProvider that returns in this step is a restoreSession
RestoreReturns ==
  \E i \in 1..MaxAuthCalls : Returning(i) /\ authPending[i].op = "restoreSession"

\* both keys are stored, the token parses, and neither the expiry of the token
\* nor that of the session record has passed at t
SessionLive(se, t) ==
  /\ getUserSession(se)
  /\ se.token[1].payload
  /\ se.token[1].exp >= t
  /\ se.userData[1].expiresAt >= t

\* the next restoreSession finds no session
NextRestoreFindsNone ==
  restoreSession(mockUsers', loginAttempts', session', minute', TRUE, TRUE).res.error = NO_SESSION

SignOutReturns ==
  \E i \in 1..MaxAuthCalls : Returning(i) /\ authPending[i].op = "signOut"

\* C30: when the signOut of the AuthProvider has returned and userToken and user
\* are null, no session is persisted and the next restoreSession does not
\* succeed, also when the removal from storage has failed
C30_SignedOutLeavesNoSession ==
  [][(SignOutReturns /\ authState'.userToken = << >> /\ authState'.user = << >>)
       => /\ ~getUserSession(session')
          /\ ~restoreSession(mockUsers', loginAttempts', session', minute', TRUE, TRUE).res.success
    ]_vars

\* C29: every stored task that is not completed has no completedAt
C29_OpenTasksHaveNoCompletedAt ==
  \A l \in StoredListsOf(storage) :
    \A i \in 1..Len(l.tasks) : ~l.tasks[i].completed => l.tasks[i].completedAt = 0

(***************************************************************************)
(* Overlapping refreshLists calls of the ListProvider.                     *)
(***************************************************************************)

\* the refreshLists calls that the model starts
MaxLoads == 3

\* a refreshLists call that awaits loadUserLists: the user and the filter are
\* those of the render that made the callback
Loading(seq, u, f) ==
  [op |-> "refreshLists", seq |-> seq, userId |-> u, filter |-> f, phase |-> "loading"]

\* refreshLists up to its await, called in the state s
RefreshBegin(s, u) ==
  /\ Cardinality(pending) < MaxLoads
  /\ state' = listReducer(listReducer(s, Action("SET_LOADING", TRUE), now),
                          Action("CLEAR_ERROR", <<>>), now)
  /\ pending' = pending \cup { Loading(Cardinality(pending) + 1, u, s.filter) }

\* the effect on [user, refreshLists], run in the state s for the user u
EffectBegin(s, u) ==
  IF u # NoUser THEN RefreshBegin(s, u)
  ELSE /\ state' = listReducer(s, Action("SET_LISTS", <<>>), now)
       /\ pending' = pending

\* the AuthContext user changes while loads may be in flight
UserChanges(u) ==
  /\ u # user
  /\ user' = u
  /\ EffectBegin(state, u)
  /\ UNCHANGED << authVars, mockUsers, storage, cache, cachedAt, nextId, now, last, deleted,
                  ioFailed >>

\* setFilter while loads may be in flight
FilterChanges(partial) ==
  /\ EffectBegin(listReducer(state, Action("SET_FILTER", partial), now), user)
  /\ UNCHANGED << authVars, mockUsers, storage, cache, cachedAt, nextId, now, last, user, deleted,
                  ioFailed >>

\* refreshLists is called from a screen
RefreshCalled ==
  /\ user # NoUser
  /\ RefreshBegin(state, user)
  /\ UNCHANGED << authVars, mockUsers, storage, cache, cachedAt, nextId, now, last, user, deleted,
                  ioFailed >>

\* loadUserLists of the call p returns and refreshLists dispatches its result
RefreshReturns(p, readOk, writeOk) ==
  /\ p.phase = "loading"
  /\ (readOk /\ writeOk) \/ ~ioFailed
  /\ \E o \in {loadUserLists(storage, cache, nextId, now, p.userId, p.filter, readOk, writeOk)} :
        /\ Drawn(o, readOk, writeOk)
        /\ storage' = o.storage
        /\ cache' = o.cache
        /\ cachedAt' = Stamped(cachedAt, cache, o.cache, minute)
        /\ nextId' = nextId + o.used
        /\ now' = now + 1
        /\ ioFailed' = (ioFailed \/ o.write = "failed" \/ o.readFailed)
        /\ last' = [Call("loadUserLists", p.userId, MissingId, MissingId, p.filter, o)
                      EXCEPT !.effect = TRUE]
        /\ state' = IF o.res.success
                    THEN listReducer(state, Action("SET_LISTS", o.res.data), now)
                    ELSE listReducer(state, Action("SET_ERROR",
                                                   ErrorOr(o.res.error, "Blad ladowania list")), now)
  /\ pending' = (pending \ {p}) \cup { [p EXCEPT !.phase = "done"] }
  /\ UNCHANGED << authVars, mockUsers, user, deleted >>

NextRefresh ==
  \/ \E u \in Callers \cup { NoUser } : UserChanges(u)
  \/ \E partial \in SetFilterInputs : FilterChanges(partial)
  \/ RefreshCalled
  \/ \E p \in pending, readOk, writeOk \in BOOLEAN : RefreshReturns(p, readOk, writeOk)

SpecRefresh == Init /\ [][NextRefresh]_vars

\* the call p returns in this step
LoadReturns(p) == p.phase = "loading" /\ p \notin pending'

\* no refreshLists has been started after p
LatestLoad(p) == \A q \in pending : q.seq <= p.seq

\* C28: while nobody is signed in the provider holds no lists, and a
\* refreshLists that returns changes the lists held only if it is the call
\* started last and was started for the current user and the current filter
C28_LateLoadNeverOverwrites ==
  [][/\ user' = NoUser => state'.lists = << >>
     /\ \A p \in pending :
          (LoadReturns(p) /\ state'.lists # state.lists)
            => LatestLoad(p) /\ p.userId = user /\ p.filter = state.filter
    ]_vars

====
